---- MODULE Spec2Model ----
(***************************************************************************)
(* Model of VKR.py: the in-memory reference dataset of childhood           *)
(* infectious diseases, the seasonal statistics table derived from it at    *)
(* import time, and the six JSON endpoints that read them.                  *)
(*                                                                          *)
(* Text is modelled as a sequence of Unicode code points, so that           *)
(* str.lower(), str.strip() and the "in" substring test are computed and    *)
(* not assumed.  Optional[T] is modelled as a sequence of length 0 (None)   *)
(* or 1 (a value).                                                          *)
(***************************************************************************)
EXTENDS Integers, Sequences, FiniteSets, TLC

\* ------------------------------------------------------------------------
\* Bounds of the explored inputs
\* ------------------------------------------------------------------------

\* identifiers tried by a request range over 1 - IdSlack .. n + IdSlack
IdSlack == 2
\* whitespace characters put before and after a text argument
MaxPad == 1
\* length of the name fragments used as the q argument
MaxQLen == 3
\* years tried by a request range over YEARS[1] - YearSlack .. YEARS[3] + YearSlack
YearSlack == 1

\* ------------------------------------------------------------------------
\* Python values
\* ------------------------------------------------------------------------

None == <<>>

Some(x) == <<x>>

Min(S) == CHOOSE x \in S : \A y \in S : x <= y

Max(S) == CHOOSE x \in S : \A y \in S : x >= y

\* str.isspace() code points
Whitespace ==
  {9, 10, 11, 12, 13, 28, 29, 30, 31, 32, 133, 160, 5760} \cup (8192..8202)
    \cup {8232, 8233, 8239, 8287, 12288}

\* str.lower() on one code point: Latin A-Z, Cyrillic U+0400..U+042F
lower_char(c) ==
  IF c \in 65..90 THEN c + 32
  ELSE IF c \in 1040..1071 THEN c + 32
  ELSE IF c \in 1024..1039 THEN c + 80
  ELSE c

lower(s) == [i \in 1..Len(s) |-> lower_char(s[i])]

\* str.strip(): drop leading and trailing whitespace
strip(s) ==
  LET keep == {i \in 1..Len(s) : s[i] \notin Whitespace}
  IN  IF keep = {} THEN <<>> ELSE SubSeq(s, Min(keep), Max(keep))

\* the "in" operator on str: sub occurs in s as a contiguous run
contains(sub, s) ==
  \E i \in 0..(Len(s) - Len(sub)) : SubSeq(s, i + 1, i + Len(sub)) = sub

\* "is not None" in place of the truth value: a faulty variant
truthy_not_none(opt) == opt # None

\* truth value of an Optional[str]: None and "" are false
truthy(opt) == opt # None /\ opt[1] # <<>>

\* ------------------------------------------------------------------------
\* Data model (VKR.py 26-77)
\* ------------------------------------------------------------------------

\* Season members in declaration order
Season == <<"winter", "spring", "summer", "autumn">>

\* Season member -> its str value
SeasonValue ==
  [winter |-> <<1047, 1080, 1084, 1072>>,
   spring |-> <<1042, 1077, 1089, 1085, 1072>>,
   summer |-> <<1051, 1077, 1090, 1086>>,
   autumn |-> <<1054, 1089, 1077, 1085, 1100>>]

\* AgeGroup members in declaration order
AgeGroup == <<"preschool", "under7", "children">>

\* AgeGroup member -> its str value
AgeGroupValue ==
  [preschool |-> <<1044, 1086, 1096, 1082, 1086, 1083, 1100, 1085, 1099, 1081, 32, 1074, 1086,
                   1079, 1088, 1072, 1089, 1090>>,
   under7    |-> <<1044, 1077, 1090, 1080, 32, 1076, 1086, 32, 55, 32, 1083, 1077, 1090>>,
   children  |-> <<1044, 1077, 1090, 1089, 1082, 1080, 1081, 32, 1074, 1086, 1079, 1088, 1072,
                   1089, 1090>>]

\* the AgeGroup member a label denotes: AgeGroup(value)
AgeGroupByValue(value) ==
  CHOOSE a \in {AgeGroup[i] : i \in 1..Len(AgeGroup)} : AgeGroupValue[a] = value

Symptom(id, name, description) ==
  [id |-> id, name |-> name, description |-> description]

Disease(id, name, pathogen_type, transmission, age_group, symptoms, prevention) ==
  [id |-> id, name |-> name, pathogen_type |-> pathogen_type,
   transmission |-> transmission, age_group |-> age_group,
   symptoms |-> symptoms, prevention |-> prevention]

DiseaseShort(id, name, age_group, pathogen_type) ==
  [id |-> id, name |-> name, age_group |-> age_group, pathogen_type |-> pathogen_type]

StatisticItem(disease_id, year, season, cases) ==
  [disease_id |-> disease_id, year |-> year, season |-> season, cases |-> cases]

\* DiseaseWithStats built from model_dump(exclude={"prevention"}), which
\* leaves prevention at its default None: a faulty variant
DiseaseWithStats_without_prevention(disease, statistics) ==
  [id |-> disease.id, name |-> disease.name, pathogen_type |-> disease.pathogen_type,
   transmission |-> disease.transmission, age_group |-> disease.age_group,
   symptoms |-> disease.symptoms, prevention |-> None,
   statistics |-> statistics]

\* DiseaseWithStats(**disease.model_dump(), statistics=stats)
DiseaseWithStats(disease, statistics) ==
  [id |-> disease.id, name |-> disease.name, pathogen_type |-> disease.pathogen_type,
   transmission |-> disease.transmission, age_group |-> disease.age_group,
   symptoms |-> disease.symptoms, prevention |-> disease.prevention,
   statistics |-> statistics]

\* ---- SYMPTOMS_DB literal (VKR.py 84-95); text as Unicode code points ----
SymptomsLoaded ==
  <<
    \* 1: Lihoradka -- Povyshennaya temperatura tela
    Symptom(1,
        <<1051, 1080, 1093, 1086, 1088, 1072, 1076, 1082, 1072>>,
        Some(<<1055, 1086, 1074, 1099, 1096, 1077, 1085, 1085, 1072, 1103, 32, 1090, 1077, 1084, 1087,
               1077, 1088, 1072, 1090, 1091, 1088, 1072, 32, 1090, 1077, 1083, 1072>>)),
    \* 2: Syp' -- Pyatnistaya ili papulyoznaya syp'
    Symptom(2,
        <<1057, 1099, 1087, 1100>>,
        Some(<<1055, 1103, 1090, 1085, 1080, 1089, 1090, 1072, 1103, 32, 1080, 1083, 1080, 32, 1087, 1072,
               1087, 1091, 1083, 1105, 1079, 1085, 1072, 1103, 32, 1089, 1099, 1087, 1100>>)),
    \* 3: Kashel' -- Suhoj ili vlazhnyj kashel'
    Symptom(3,
        <<1050, 1072, 1096, 1077, 1083, 1100>>,
        Some(<<1057, 1091, 1093, 1086, 1081, 32, 1080, 1083, 1080, 32, 1074, 1083, 1072, 1078, 1085, 1099,
               1081, 32, 1082, 1072, 1096, 1077, 1083, 1100>>)),
    \* 4: Nasmork -- Vydeleniya iz nosa
    Symptom(4,
        <<1053, 1072, 1089, 1084, 1086, 1088, 1082>>,
        Some(<<1042, 1099, 1076, 1077, 1083, 1077, 1085, 1080, 1103, 32, 1080, 1079, 32, 1085, 1086, 1089,
               1072>>)),
    \* 5: Golovnaya bol' -- Bol' razlichnoj intensivnosti
    Symptom(5,
        <<1043, 1086, 1083, 1086, 1074, 1085, 1072, 1103, 32, 1073, 1086, 1083, 1100>>,
        Some(<<1041, 1086, 1083, 1100, 32, 1088, 1072, 1079, 1083, 1080, 1095, 1085, 1086, 1081, 32, 1080,
               1085, 1090, 1077, 1085, 1089, 1080, 1074, 1085, 1086, 1089, 1090, 1080>>)),
    \* 6: Rvota -- Obratnoe dvizhenie soderzhimogo zheludka
    Symptom(6,
        <<1056, 1074, 1086, 1090, 1072>>,
        Some(<<1054, 1073, 1088, 1072, 1090, 1085, 1086, 1077, 32, 1076, 1074, 1080, 1078, 1077, 1085,
               1080, 1077, 32, 1089, 1086, 1076, 1077, 1088, 1078, 1080, 1084, 1086, 1075, 1086, 32, 1078,
               1077, 1083, 1091, 1076, 1082, 1072>>)),
    \* 7: Diareya -- Chastyj zhidkij stul
    Symptom(7,
        <<1044, 1080, 1072, 1088, 1077, 1103>>,
        Some(<<1063, 1072, 1089, 1090, 1099, 1081, 32, 1078, 1080, 1076, 1082, 1080, 1081, 32, 1089, 1090,
               1091, 1083>>)),
    \* 8: Bol' v gorle -- Vospalenie slizistoj gorla
    Symptom(8,
        <<1041, 1086, 1083, 1100, 32, 1074, 32, 1075, 1086, 1088, 1083, 1077>>,
        Some(<<1042, 1086, 1089, 1087, 1072, 1083, 1077, 1085, 1080, 1077, 32, 1089, 1083, 1080, 1079,
               1080, 1089, 1090, 1086, 1081, 32, 1075, 1086, 1088, 1083, 1072>>)),
    \* 9: Kon'yunktivit -- Pokrasnenie i vospalenie glaz
    Symptom(9,
        <<1050, 1086, 1085, 1098, 1102, 1085, 1082, 1090, 1080, 1074, 1080, 1090>>,
        Some(<<1055, 1086, 1082, 1088, 1072, 1089, 1085, 1077, 1085, 1080, 1077, 32, 1080, 32, 1074, 1086,
               1089, 1087, 1072, 1083, 1077, 1085, 1080, 1077, 32, 1075, 1083, 1072, 1079>>)),
    \* 10: Uvelichenie limfouzlov -- Limfadenopatiya
    Symptom(10,
        <<1059, 1074, 1077, 1083, 1080, 1095, 1077, 1085, 1080, 1077, 32, 1083, 1080, 1084, 1092,
          1086, 1091, 1079, 1083, 1086, 1074>>,
        Some(<<1051, 1080, 1084, 1092, 1072, 1076, 1077, 1085, 1086, 1087, 1072, 1090, 1080, 1103>>))
  >>

\* {s.id: Symptom(id=s.id, name=s.name) for s in SYMPTOMS_DB}, which drops the
\* description: a faulty variant
SYMPTOMS_BY_ID_rebuilt ==
  [id \in {SymptomsLoaded[i].id : i \in 1..Len(SymptomsLoaded)} |->
     Symptom(id,
             SymptomsLoaded[Max({i \in 1..Len(SymptomsLoaded) : SymptomsLoaded[i].id = id})].name,
             None)]

\* {s.id: s for s in SYMPTOMS_DB}: a later entry with the same id would win
SYMPTOMS_BY_ID ==
  [id \in {SymptomsLoaded[i].id : i \in 1..Len(SymptomsLoaded)} |->
     SymptomsLoaded[Max({i \in 1..Len(SymptomsLoaded) : SymptomsLoaded[i].id = id})]]

\* ---- DISEASES_DB literal (VKR.py 99-506) ----
DiseasesLoaded ==
  <<
    \* 1: Kor'; Virus; Vozdushno-kapel'nyj
    Disease(1,
        <<1050, 1086, 1088, 1100>>,
        <<1042, 1080, 1088, 1091, 1089>>,
        <<1042, 1086, 1079, 1076, 1091, 1096, 1085, 1086, 45, 1082, 1072, 1087, 1077, 1083, 1100,
          1085, 1099, 1081>>,
        "preschool",
        <<SYMPTOMS_BY_ID[1], SYMPTOMS_BY_ID[2], SYMPTOMS_BY_ID[10]>>,
        \* Vakcinaciya po nacional'nomu kalendaryu
        Some(<<1042, 1072, 1082, 1094, 1080, 1085, 1072, 1094, 1080, 1103, 32, 1087, 1086, 32, 1085, 1072,
               1094, 1080, 1086, 1085, 1072, 1083, 1100, 1085, 1086, 1084, 1091, 32, 1082, 1072, 1083,
               1077, 1085, 1076, 1072, 1088, 1102>>)),
    \* 2: Koklyush; Bakteriya; Vozdushno-kapel'nyj
    Disease(2,
        <<1050, 1086, 1082, 1083, 1102, 1096>>,
        <<1041, 1072, 1082, 1090, 1077, 1088, 1080, 1103>>,
        <<1042, 1086, 1079, 1076, 1091, 1096, 1085, 1086, 45, 1082, 1072, 1087, 1077, 1083, 1100,
          1085, 1099, 1081>>,
        "under7",
        <<SYMPTOMS_BY_ID[1], SYMPTOMS_BY_ID[3]>>,
        \* Vakcinaciya (AKDS)
        Some(<<1042, 1072, 1082, 1094, 1080, 1085, 1072, 1094, 1080, 1103, 32, 40, 1040, 1050, 1044, 1057,
               41>>)),
    \* 3: Vetryanaya ospa; Virus; Vozdushno-kapel'nyj
    Disease(3,
        <<1042, 1077, 1090, 1088, 1103, 1085, 1072, 1103, 32, 1086, 1089, 1087, 1072>>,
        <<1042, 1080, 1088, 1091, 1089>>,
        <<1042, 1086, 1079, 1076, 1091, 1096, 1085, 1086, 45, 1082, 1072, 1087, 1077, 1083, 1100,
          1085, 1099, 1081>>,
        "children",
        <<SYMPTOMS_BY_ID[2], SYMPTOMS_BY_ID[1]>>,
        \* Izolyaciya zabolevshih, vakcinaciya
        Some(<<1048, 1079, 1086, 1083, 1103, 1094, 1080, 1103, 32, 1079, 1072, 1073, 1086, 1083, 1077,
               1074, 1096, 1080, 1093, 44, 32, 1074, 1072, 1082, 1094, 1080, 1085, 1072, 1094, 1080, 1103>>)),
    \* 4: Krasnuha; Virus; Vozdushno-kapel'nyj
    Disease(4,
        <<1050, 1088, 1072, 1089, 1085, 1091, 1093, 1072>>,
        <<1042, 1080, 1088, 1091, 1089>>,
        <<1042, 1086, 1079, 1076, 1091, 1096, 1085, 1086, 45, 1082, 1072, 1087, 1077, 1083, 1100,
          1085, 1099, 1081>>,
        "children",
        <<SYMPTOMS_BY_ID[2], SYMPTOMS_BY_ID[9]>>,
        \* Vakcinaciya (KPK)
        Some(<<1042, 1072, 1082, 1094, 1080, 1085, 1072, 1094, 1080, 1103, 32, 40, 1050, 1055, 1050, 41>>)),
    \* 5: Skarlatina; Bakteriya; Kontaktno-bytovoj
    Disease(5,
        <<1057, 1082, 1072, 1088, 1083, 1072, 1090, 1080, 1085, 1072>>,
        <<1041, 1072, 1082, 1090, 1077, 1088, 1080, 1103>>,
        <<1050, 1086, 1085, 1090, 1072, 1082, 1090, 1085, 1086, 45, 1073, 1099, 1090, 1086, 1074,
          1086, 1081>>,
        "children",
        <<SYMPTOMS_BY_ID[8], SYMPTOMS_BY_ID[2], SYMPTOMS_BY_ID[1]>>,
        \* Svoevremennoe naznachenie antibiotikov
        Some(<<1057, 1074, 1086, 1077, 1074, 1088, 1077, 1084, 1077, 1085, 1085, 1086, 1077, 32, 1085,
               1072, 1079, 1085, 1072, 1095, 1077, 1085, 1080, 1077, 32, 1072, 1085, 1090, 1080, 1073,
               1080, 1086, 1090, 1080, 1082, 1086, 1074>>)),
    \* 6: Svinka (epidemicheskij parotit); Virus; Vozdushno-kapel'nyj
    Disease(6,
        <<1057, 1074, 1080, 1085, 1082, 1072, 32, 40, 1101, 1087, 1080, 1076, 1077, 1084, 1080, 1095,
          1077, 1089, 1082, 1080, 1081, 32, 1087, 1072, 1088, 1086, 1090, 1080, 1090, 41>>,
        <<1042, 1080, 1088, 1091, 1089>>,
        <<1042, 1086, 1079, 1076, 1091, 1096, 1085, 1086, 45, 1082, 1072, 1087, 1077, 1083, 1100,
          1085, 1099, 1081>>,
        "children",
        <<SYMPTOMS_BY_ID[1], SYMPTOMS_BY_ID[10]>>,
        \* Vakcinaciya (KPK)
        Some(<<1042, 1072, 1082, 1094, 1080, 1085, 1072, 1094, 1080, 1103, 32, 40, 1050, 1055, 1050, 41>>)),
    \* 7: Rotavirusnaya infekciya; Virus; Fekal'no-oral'nyj
    Disease(7,
        <<1056, 1086, 1090, 1072, 1074, 1080, 1088, 1091, 1089, 1085, 1072, 1103, 32, 1080, 1085,
          1092, 1077, 1082, 1094, 1080, 1103>>,
        <<1042, 1080, 1088, 1091, 1089>>,
        <<1060, 1077, 1082, 1072, 1083, 1100, 1085, 1086, 45, 1086, 1088, 1072, 1083, 1100, 1085,
          1099, 1081>>,
        "under7",
        <<SYMPTOMS_BY_ID[7], SYMPTOMS_BY_ID[6], SYMPTOMS_BY_ID[1]>>,
        \* Gigiena, oral'naya regidrataciya
        Some(<<1043, 1080, 1075, 1080, 1077, 1085, 1072, 44, 32, 1086, 1088, 1072, 1083, 1100, 1085, 1072,
               1103, 32, 1088, 1077, 1075, 1080, 1076, 1088, 1072, 1090, 1072, 1094, 1080, 1103>>)),
    \* 8: Meningokokkovaya infekciya; Bakteriya; Vozdushno-kapel'nyj
    Disease(8,
        <<1052, 1077, 1085, 1080, 1085, 1075, 1086, 1082, 1086, 1082, 1082, 1086, 1074, 1072, 1103,
          32, 1080, 1085, 1092, 1077, 1082, 1094, 1080, 1103>>,
        <<1041, 1072, 1082, 1090, 1077, 1088, 1080, 1103>>,
        <<1042, 1086, 1079, 1076, 1091, 1096, 1085, 1086, 45, 1082, 1072, 1087, 1077, 1083, 1100,
          1085, 1099, 1081>>,
        "children",
        <<SYMPTOMS_BY_ID[1], SYMPTOMS_BY_ID[5], SYMPTOMS_BY_ID[10]>>,
        \* Nemedlennoe nachalo lecheniya, vakcinaciya
        Some(<<1053, 1077, 1084, 1077, 1076, 1083, 1077, 1085, 1085, 1086, 1077, 32, 1085, 1072, 1095,
               1072, 1083, 1086, 32, 1083, 1077, 1095, 1077, 1085, 1080, 1103, 44, 32, 1074, 1072, 1082,
               1094, 1080, 1085, 1072, 1094, 1080, 1103>>)),
    \* 9: Adenovirusnaya infekciya; Virus; Vozdushno-kapel'nyj
    Disease(9,
        <<1040, 1076, 1077, 1085, 1086, 1074, 1080, 1088, 1091, 1089, 1085, 1072, 1103, 32, 1080,
          1085, 1092, 1077, 1082, 1094, 1080, 1103>>,
        <<1042, 1080, 1088, 1091, 1089>>,
        <<1042, 1086, 1079, 1076, 1091, 1096, 1085, 1086, 45, 1082, 1072, 1087, 1077, 1083, 1100,
          1085, 1099, 1081>>,
        "preschool",
        <<SYMPTOMS_BY_ID[4], SYMPTOMS_BY_ID[7], SYMPTOMS_BY_ID[9]>>,
        \* Soblyudenie gigieny, izolyaciya zabolevshih
        Some(<<1057, 1086, 1073, 1083, 1102, 1076, 1077, 1085, 1080, 1077, 32, 1075, 1080, 1075, 1080,
               1077, 1085, 1099, 44, 32, 1080, 1079, 1086, 1083, 1103, 1094, 1080, 1103, 32, 1079, 1072,
               1073, 1086, 1083, 1077, 1074, 1096, 1080, 1093>>)),
    \* 10: Enterovirusnaya infekciya; Virus; Fekal'no-oral'nyj
    Disease(10,
        <<1069, 1085, 1090, 1077, 1088, 1086, 1074, 1080, 1088, 1091, 1089, 1085, 1072, 1103, 32,
          1080, 1085, 1092, 1077, 1082, 1094, 1080, 1103>>,
        <<1042, 1080, 1088, 1091, 1089>>,
        <<1060, 1077, 1082, 1072, 1083, 1100, 1085, 1086, 45, 1086, 1088, 1072, 1083, 1100, 1085,
          1099, 1081>>,
        "children",
        <<SYMPTOMS_BY_ID[7], SYMPTOMS_BY_ID[6], SYMPTOMS_BY_ID[5]>>,
        \* Gigiena, kontrol' kachestva vody i pischi
        Some(<<1043, 1080, 1075, 1080, 1077, 1085, 1072, 44, 32, 1082, 1086, 1085, 1090, 1088, 1086, 1083,
               1100, 32, 1082, 1072, 1095, 1077, 1089, 1090, 1074, 1072, 32, 1074, 1086, 1076, 1099, 32,
               1080, 32, 1087, 1080, 1097, 1080>>)),
    \* 11: Gripp; Virus; Vozdushno-kapel'nyj
    Disease(11,
        <<1043, 1088, 1080, 1087, 1087>>,
        <<1042, 1080, 1088, 1091, 1089>>,
        <<1042, 1086, 1079, 1076, 1091, 1096, 1085, 1086, 45, 1082, 1072, 1087, 1077, 1083, 1100,
          1085, 1099, 1081>>,
        "children",
        <<SYMPTOMS_BY_ID[1], SYMPTOMS_BY_ID[5], SYMPTOMS_BY_ID[3]>>,
        \* Ezhegodnaya vakcinaciya, izolyaciya zabolevshih
        Some(<<1045, 1078, 1077, 1075, 1086, 1076, 1085, 1072, 1103, 32, 1074, 1072, 1082, 1094, 1080,
               1085, 1072, 1094, 1080, 1103, 44, 32, 1080, 1079, 1086, 1083, 1103, 1094, 1080, 1103, 32,
               1079, 1072, 1073, 1086, 1083, 1077, 1074, 1096, 1080, 1093>>)),
    \* 12: ORVI; Virus; Vozdushno-kapel'nyj
    Disease(12,
        <<1054, 1056, 1042, 1048>>,
        <<1042, 1080, 1088, 1091, 1089>>,
        <<1042, 1086, 1079, 1076, 1091, 1096, 1085, 1086, 45, 1082, 1072, 1087, 1077, 1083, 1100,
          1085, 1099, 1081>>,
        "children",
        <<SYMPTOMS_BY_ID[4], SYMPTOMS_BY_ID[3], SYMPTOMS_BY_ID[5]>>,
        \* Gigiena i podderzhivayuschaya terapiya
        Some(<<1043, 1080, 1075, 1080, 1077, 1085, 1072, 32, 1080, 32, 1087, 1086, 1076, 1076, 1077, 1088,
               1078, 1080, 1074, 1072, 1102, 1097, 1072, 1103, 32, 1090, 1077, 1088, 1072, 1087, 1080, 1103>>)),
    \* 13: Angina (ostryj tonzillit); Bakteriya; Kontaktnyj
    Disease(13,
        <<1040, 1085, 1075, 1080, 1085, 1072, 32, 40, 1086, 1089, 1090, 1088, 1099, 1081, 32, 1090,
          1086, 1085, 1079, 1080, 1083, 1083, 1080, 1090, 41>>,
        <<1041, 1072, 1082, 1090, 1077, 1088, 1080, 1103>>,
        <<1050, 1086, 1085, 1090, 1072, 1082, 1090, 1085, 1099, 1081>>,
        "children",
        <<SYMPTOMS_BY_ID[8], SYMPTOMS_BY_ID[1], SYMPTOMS_BY_ID[5]>>,
        \* Racional'naya antibakterial'naya terapiya
        Some(<<1056, 1072, 1094, 1080, 1086, 1085, 1072, 1083, 1100, 1085, 1072, 1103, 32, 1072, 1085,
               1090, 1080, 1073, 1072, 1082, 1090, 1077, 1088, 1080, 1072, 1083, 1100, 1085, 1072, 1103,
               32, 1090, 1077, 1088, 1072, 1087, 1080, 1103>>)),
    \* 14: Difteriya; Bakteriya; Vozdushno-kapel'nyj
    Disease(14,
        <<1044, 1080, 1092, 1090, 1077, 1088, 1080, 1103>>,
        <<1041, 1072, 1082, 1090, 1077, 1088, 1080, 1103>>,
        <<1042, 1086, 1079, 1076, 1091, 1096, 1085, 1086, 45, 1082, 1072, 1087, 1077, 1083, 1100,
          1085, 1099, 1081>>,
        "children",
        <<SYMPTOMS_BY_ID[8], SYMPTOMS_BY_ID[1]>>,
        \* Vakcinaciya (AKDS)
        Some(<<1042, 1072, 1082, 1094, 1080, 1085, 1072, 1094, 1080, 1103, 32, 40, 1040, 1050, 1044, 1057,
               41>>)),
    \* 15: Pischevye toksikoinfekcii; Bakterii; Fekal'no-oral'nyj
    Disease(15,
        <<1055, 1080, 1097, 1077, 1074, 1099, 1077, 32, 1090, 1086, 1082, 1089, 1080, 1082, 1086,
          1080, 1085, 1092, 1077, 1082, 1094, 1080, 1080>>,
        <<1041, 1072, 1082, 1090, 1077, 1088, 1080, 1080>>,
        <<1060, 1077, 1082, 1072, 1083, 1100, 1085, 1086, 45, 1086, 1088, 1072, 1083, 1100, 1085,
          1099, 1081>>,
        "children",
        <<SYMPTOMS_BY_ID[6], SYMPTOMS_BY_ID[7]>>,
        \* Soblyudenie pravil pischevoj bezopasnosti
        Some(<<1057, 1086, 1073, 1083, 1102, 1076, 1077, 1085, 1080, 1077, 32, 1087, 1088, 1072, 1074,
               1080, 1083, 32, 1087, 1080, 1097, 1077, 1074, 1086, 1081, 32, 1073, 1077, 1079, 1086, 1087,
               1072, 1089, 1085, 1086, 1089, 1090, 1080>>)),
    \* 16: Norovirusnaya infekciya; Virus; Fekal'no-oral'nyj
    Disease(16,
        <<1053, 1086, 1088, 1086, 1074, 1080, 1088, 1091, 1089, 1085, 1072, 1103, 32, 1080, 1085,
          1092, 1077, 1082, 1094, 1080, 1103>>,
        <<1042, 1080, 1088, 1091, 1089>>,
        <<1060, 1077, 1082, 1072, 1083, 1100, 1085, 1086, 45, 1086, 1088, 1072, 1083, 1100, 1085,
          1099, 1081>>,
        "under7",
        <<SYMPTOMS_BY_ID[7], SYMPTOMS_BY_ID[6], SYMPTOMS_BY_ID[5]>>,
        \* Gigiena ruk, kontrol' kachestva pischi i vody
        Some(<<1043, 1080, 1075, 1080, 1077, 1085, 1072, 32, 1088, 1091, 1082, 44, 32, 1082, 1086, 1085,
               1090, 1088, 1086, 1083, 1100, 32, 1082, 1072, 1095, 1077, 1089, 1090, 1074, 1072, 32, 1087,
               1080, 1097, 1080, 32, 1080, 32, 1074, 1086, 1076, 1099>>)),
    \* 17: Koronavirusnaya infekciya (u detej); Virus; Vozdushno-kapel'nyj
    Disease(17,
        <<1050, 1086, 1088, 1086, 1085, 1072, 1074, 1080, 1088, 1091, 1089, 1085, 1072, 1103, 32,
          1080, 1085, 1092, 1077, 1082, 1094, 1080, 1103, 32, 40, 1091, 32, 1076, 1077, 1090, 1077,
          1081, 41>>,
        <<1042, 1080, 1088, 1091, 1089>>,
        <<1042, 1086, 1079, 1076, 1091, 1096, 1085, 1086, 45, 1082, 1072, 1087, 1077, 1083, 1100,
          1085, 1099, 1081>>,
        "children",
        <<SYMPTOMS_BY_ID[1], SYMPTOMS_BY_ID[3], SYMPTOMS_BY_ID[4]>>,
        \* Gigiena, masochnyj rezhim v sezon pod'yoma zabolevaemosti
        Some(<<1043, 1080, 1075, 1080, 1077, 1085, 1072, 44, 32, 1084, 1072, 1089, 1086, 1095, 1085, 1099,
               1081, 32, 1088, 1077, 1078, 1080, 1084, 32, 1074, 32, 1089, 1077, 1079, 1086, 1085, 32,
               1087, 1086, 1076, 1098, 1105, 1084, 1072, 32, 1079, 1072, 1073, 1086, 1083, 1077, 1074,
               1072, 1077, 1084, 1086, 1089, 1090, 1080>>)),
    \* 18: Paragripp; Virus; Vozdushno-kapel'nyj
    Disease(18,
        <<1055, 1072, 1088, 1072, 1075, 1088, 1080, 1087, 1087>>,
        <<1042, 1080, 1088, 1091, 1089>>,
        <<1042, 1086, 1079, 1076, 1091, 1096, 1085, 1086, 45, 1082, 1072, 1087, 1077, 1083, 1100,
          1085, 1099, 1081>>,
        "children",
        <<SYMPTOMS_BY_ID[3], SYMPTOMS_BY_ID[4], SYMPTOMS_BY_ID[1]>>,
        \* Izolyaciya zabolevshih, gigiena ruk
        Some(<<1048, 1079, 1086, 1083, 1103, 1094, 1080, 1103, 32, 1079, 1072, 1073, 1086, 1083, 1077,
               1074, 1096, 1080, 1093, 44, 32, 1075, 1080, 1075, 1080, 1077, 1085, 1072, 32, 1088, 1091,
               1082>>)),
    \* 19: Epidemicheskij kon'yunktivit; Virus; Kontaktno-bytovoj
    Disease(19,
        <<1069, 1087, 1080, 1076, 1077, 1084, 1080, 1095, 1077, 1089, 1082, 1080, 1081, 32, 1082,
          1086, 1085, 1098, 1102, 1085, 1082, 1090, 1080, 1074, 1080, 1090>>,
        <<1042, 1080, 1088, 1091, 1089>>,
        <<1050, 1086, 1085, 1090, 1072, 1082, 1090, 1085, 1086, 45, 1073, 1099, 1090, 1086, 1074,
          1086, 1081>>,
        "children",
        <<SYMPTOMS_BY_ID[9], SYMPTOMS_BY_ID[1]>>,
        \* Gigiena ruk, individual'nye polotenca
        Some(<<1043, 1080, 1075, 1080, 1077, 1085, 1072, 32, 1088, 1091, 1082, 44, 32, 1080, 1085, 1076,
               1080, 1074, 1080, 1076, 1091, 1072, 1083, 1100, 1085, 1099, 1077, 32, 1087, 1086, 1083,
               1086, 1090, 1077, 1085, 1094, 1072>>)),
    \* 20: Infekcionnyj mononukleoz; Virus; Kontaktno-bytovoj
    Disease(20,
        <<1048, 1085, 1092, 1077, 1082, 1094, 1080, 1086, 1085, 1085, 1099, 1081, 32, 1084, 1086,
          1085, 1086, 1085, 1091, 1082, 1083, 1077, 1086, 1079>>,
        <<1042, 1080, 1088, 1091, 1089>>,
        <<1050, 1086, 1085, 1090, 1072, 1082, 1090, 1085, 1086, 45, 1073, 1099, 1090, 1086, 1074,
          1086, 1081>>,
        "children",
        <<SYMPTOMS_BY_ID[1], SYMPTOMS_BY_ID[10], SYMPTOMS_BY_ID[5]>>,
        \* Ogranichenie bytovyh kontaktov v period bolezni
        Some(<<1054, 1075, 1088, 1072, 1085, 1080, 1095, 1077, 1085, 1080, 1077, 32, 1073, 1099, 1090,
               1086, 1074, 1099, 1093, 32, 1082, 1086, 1085, 1090, 1072, 1082, 1090, 1086, 1074, 32, 1074,
               32, 1087, 1077, 1088, 1080, 1086, 1076, 32, 1073, 1086, 1083, 1077, 1079, 1085, 1080>>)),
    \* 21: Citomegalovirusnaya infekciya; Virus; Kontaktno-bytovoj
    Disease(21,
        <<1062, 1080, 1090, 1086, 1084, 1077, 1075, 1072, 1083, 1086, 1074, 1080, 1088, 1091, 1089,
          1085, 1072, 1103, 32, 1080, 1085, 1092, 1077, 1082, 1094, 1080, 1103>>,
        <<1042, 1080, 1088, 1091, 1089>>,
        <<1050, 1086, 1085, 1090, 1072, 1082, 1090, 1085, 1086, 45, 1073, 1099, 1090, 1086, 1074,
          1086, 1081>>,
        "children",
        <<SYMPTOMS_BY_ID[1], SYMPTOMS_BY_ID[5]>>,
        \* Soblyudenie gigieny, obsledovanie beremennyh
        Some(<<1057, 1086, 1073, 1083, 1102, 1076, 1077, 1085, 1080, 1077, 32, 1075, 1080, 1075, 1080,
               1077, 1085, 1099, 44, 32, 1086, 1073, 1089, 1083, 1077, 1076, 1086, 1074, 1072, 1085, 1080,
               1077, 32, 1073, 1077, 1088, 1077, 1084, 1077, 1085, 1085, 1099, 1093>>)),
    \* 22: Sal'monellyoz; Bakteriya; Fekal'no-oral'nyj
    Disease(22,
        <<1057, 1072, 1083, 1100, 1084, 1086, 1085, 1077, 1083, 1083, 1105, 1079>>,
        <<1041, 1072, 1082, 1090, 1077, 1088, 1080, 1103>>,
        <<1060, 1077, 1082, 1072, 1083, 1100, 1085, 1086, 45, 1086, 1088, 1072, 1083, 1100, 1085,
          1099, 1081>>,
        "children",
        <<SYMPTOMS_BY_ID[7], SYMPTOMS_BY_ID[6], SYMPTOMS_BY_ID[1]>>,
        \* Termicheskaya obrabotka produktov, gigiena
        Some(<<1058, 1077, 1088, 1084, 1080, 1095, 1077, 1089, 1082, 1072, 1103, 32, 1086, 1073, 1088,
               1072, 1073, 1086, 1090, 1082, 1072, 32, 1087, 1088, 1086, 1076, 1091, 1082, 1090, 1086,
               1074, 44, 32, 1075, 1080, 1075, 1080, 1077, 1085, 1072>>)),
    \* 23: Shigellyoz (bakterial'naya dizenteriya); Bakteriya; Fekal'no-oral'nyj
    Disease(23,
        <<1064, 1080, 1075, 1077, 1083, 1083, 1105, 1079, 32, 40, 1073, 1072, 1082, 1090, 1077, 1088,
          1080, 1072, 1083, 1100, 1085, 1072, 1103, 32, 1076, 1080, 1079, 1077, 1085, 1090, 1077,
          1088, 1080, 1103, 41>>,
        <<1041, 1072, 1082, 1090, 1077, 1088, 1080, 1103>>,
        <<1060, 1077, 1082, 1072, 1083, 1100, 1085, 1086, 45, 1086, 1088, 1072, 1083, 1100, 1085,
          1099, 1081>>,
        "children",
        <<SYMPTOMS_BY_ID[7], SYMPTOMS_BY_ID[1], SYMPTOMS_BY_ID[5]>>,
        \* Bezopasnaya voda, sanitarno-gigienicheskie meropriyatiya
        Some(<<1041, 1077, 1079, 1086, 1087, 1072, 1089, 1085, 1072, 1103, 32, 1074, 1086, 1076, 1072, 44,
               32, 1089, 1072, 1085, 1080, 1090, 1072, 1088, 1085, 1086, 45, 1075, 1080, 1075, 1080, 1077,
               1085, 1080, 1095, 1077, 1089, 1082, 1080, 1077, 32, 1084, 1077, 1088, 1086, 1087, 1088,
               1080, 1103, 1090, 1080, 1103>>)),
    \* 24: Lyamblioz; Parazit; Fekal'no-oral'nyj
    Disease(24,
        <<1051, 1103, 1084, 1073, 1083, 1080, 1086, 1079>>,
        <<1055, 1072, 1088, 1072, 1079, 1080, 1090>>,
        <<1060, 1077, 1082, 1072, 1083, 1100, 1085, 1086, 45, 1086, 1088, 1072, 1083, 1100, 1085,
          1099, 1081>>,
        "children",
        <<SYMPTOMS_BY_ID[7], SYMPTOMS_BY_ID[5]>>,
        \* Kipyachenie vody, myt'yo ruk i ovoschej
        Some(<<1050, 1080, 1087, 1103, 1095, 1077, 1085, 1080, 1077, 32, 1074, 1086, 1076, 1099, 44, 32,
               1084, 1099, 1090, 1100, 1105, 32, 1088, 1091, 1082, 32, 1080, 32, 1086, 1074, 1086, 1097,
               1077, 1081>>)),
    \* 25: Kishechnaya esherihioznaya infekciya; Bakteriya; Fekal'no-oral'nyj
    Disease(25,
        <<1050, 1080, 1096, 1077, 1095, 1085, 1072, 1103, 32, 1101, 1096, 1077, 1088, 1080, 1093,
          1080, 1086, 1079, 1085, 1072, 1103, 32, 1080, 1085, 1092, 1077, 1082, 1094, 1080, 1103>>,
        <<1041, 1072, 1082, 1090, 1077, 1088, 1080, 1103>>,
        <<1060, 1077, 1082, 1072, 1083, 1100, 1085, 1086, 45, 1086, 1088, 1072, 1083, 1100, 1085,
          1099, 1081>>,
        "under7",
        <<SYMPTOMS_BY_ID[7], SYMPTOMS_BY_ID[6]>>,
        \* Soblyudenie sanitarnyh norm, kontrol' pitaniya detej
        Some(<<1057, 1086, 1073, 1083, 1102, 1076, 1077, 1085, 1080, 1077, 32, 1089, 1072, 1085, 1080,
               1090, 1072, 1088, 1085, 1099, 1093, 32, 1085, 1086, 1088, 1084, 44, 32, 1082, 1086, 1085,
               1090, 1088, 1086, 1083, 1100, 32, 1087, 1080, 1090, 1072, 1085, 1080, 1103, 32, 1076, 1077,
               1090, 1077, 1081>>)),
    \* 26: Gerpeticheskaya infekciya (prostogo gerpesa); Virus; Kontaktno-bytovoj
    Disease(26,
        <<1043, 1077, 1088, 1087, 1077, 1090, 1080, 1095, 1077, 1089, 1082, 1072, 1103, 32, 1080,
          1085, 1092, 1077, 1082, 1094, 1080, 1103, 32, 40, 1087, 1088, 1086, 1089, 1090, 1086, 1075,
          1086, 32, 1075, 1077, 1088, 1087, 1077, 1089, 1072, 41>>,
        <<1042, 1080, 1088, 1091, 1089>>,
        <<1050, 1086, 1085, 1090, 1072, 1082, 1090, 1085, 1086, 45, 1073, 1099, 1090, 1086, 1074,
          1086, 1081>>,
        "children",
        <<SYMPTOMS_BY_ID[1], SYMPTOMS_BY_ID[8]>>,
        \* Isklyuchenie tesnyh kontaktov v period vysypanij
        Some(<<1048, 1089, 1082, 1083, 1102, 1095, 1077, 1085, 1080, 1077, 32, 1090, 1077, 1089, 1085,
               1099, 1093, 32, 1082, 1086, 1085, 1090, 1072, 1082, 1090, 1086, 1074, 32, 1074, 32, 1087,
               1077, 1088, 1080, 1086, 1076, 32, 1074, 1099, 1089, 1099, 1087, 1072, 1085, 1080, 1081>>)),
    \* 27: Virusnyj gepatit A; Virus; Fekal'no-oral'nyj
    Disease(27,
        <<1042, 1080, 1088, 1091, 1089, 1085, 1099, 1081, 32, 1075, 1077, 1087, 1072, 1090, 1080,
          1090, 32, 1040>>,
        <<1042, 1080, 1088, 1091, 1089>>,
        <<1060, 1077, 1082, 1072, 1083, 1100, 1085, 1086, 45, 1086, 1088, 1072, 1083, 1100, 1085,
          1099, 1081>>,
        "children",
        <<SYMPTOMS_BY_ID[1], SYMPTOMS_BY_ID[6], SYMPTOMS_BY_ID[7]>>,
        \* Vakcinaciya, bezopasnaya voda i pischa
        Some(<<1042, 1072, 1082, 1094, 1080, 1085, 1072, 1094, 1080, 1103, 44, 32, 1073, 1077, 1079, 1086,
               1087, 1072, 1089, 1085, 1072, 1103, 32, 1074, 1086, 1076, 1072, 32, 1080, 32, 1087, 1080,
               1097, 1072>>)),
    \* 28: Virusnyj gepatit B; Virus; Kontaktnyj
    Disease(28,
        <<1042, 1080, 1088, 1091, 1089, 1085, 1099, 1081, 32, 1075, 1077, 1087, 1072, 1090, 1080,
          1090, 32, 66>>,
        <<1042, 1080, 1088, 1091, 1089>>,
        <<1050, 1086, 1085, 1090, 1072, 1082, 1090, 1085, 1099, 1081>>,
        "children",
        <<SYMPTOMS_BY_ID[1], SYMPTOMS_BY_ID[5]>>,
        \* Vakcinaciya, odnorazovye instrumenty
        Some(<<1042, 1072, 1082, 1094, 1080, 1085, 1072, 1094, 1080, 1103, 44, 32, 1086, 1076, 1085, 1086,
               1088, 1072, 1079, 1086, 1074, 1099, 1077, 32, 1080, 1085, 1089, 1090, 1088, 1091, 1084,
               1077, 1085, 1090, 1099>>)),
    \* 29: Kleschevoj encefalit; Virus; Transmissivnyj
    Disease(29,
        <<1050, 1083, 1077, 1097, 1077, 1074, 1086, 1081, 32, 1101, 1085, 1094, 1077, 1092, 1072,
          1083, 1080, 1090>>,
        <<1042, 1080, 1088, 1091, 1089>>,
        <<1058, 1088, 1072, 1085, 1089, 1084, 1080, 1089, 1089, 1080, 1074, 1085, 1099, 1081>>,
        "children",
        <<SYMPTOMS_BY_ID[1], SYMPTOMS_BY_ID[5]>>,
        \* Vakcinaciya, zaschita ot kleschej
        Some(<<1042, 1072, 1082, 1094, 1080, 1085, 1072, 1094, 1080, 1103, 44, 32, 1079, 1072, 1097, 1080,
               1090, 1072, 32, 1086, 1090, 32, 1082, 1083, 1077, 1097, 1077, 1081>>)),
    \* 30: Bolezn' Lajma (borrelioz); Bakteriya; Transmissivnyj
    Disease(30,
        <<1041, 1086, 1083, 1077, 1079, 1085, 1100, 32, 1051, 1072, 1081, 1084, 1072, 32, 40, 1073,
          1086, 1088, 1088, 1077, 1083, 1080, 1086, 1079, 41>>,
        <<1041, 1072, 1082, 1090, 1077, 1088, 1080, 1103>>,
        <<1058, 1088, 1072, 1085, 1089, 1084, 1080, 1089, 1089, 1080, 1074, 1085, 1099, 1081>>,
        "children",
        <<SYMPTOMS_BY_ID[2], SYMPTOMS_BY_ID[5], SYMPTOMS_BY_ID[10]>>,
        \* Zaschita ot kleschej, rannee udalenie klescha
        Some(<<1047, 1072, 1097, 1080, 1090, 1072, 32, 1086, 1090, 32, 1082, 1083, 1077, 1097, 1077, 1081,
               44, 32, 1088, 1072, 1085, 1085, 1077, 1077, 32, 1091, 1076, 1072, 1083, 1077, 1085, 1080,
               1077, 32, 1082, 1083, 1077, 1097, 1072>>)),
    \* 31: Stafilokokkovaya kozhnaya infekciya; Bakteriya; Kontaktno-bytovoj
    Disease(31,
        <<1057, 1090, 1072, 1092, 1080, 1083, 1086, 1082, 1086, 1082, 1082, 1086, 1074, 1072, 1103,
          32, 1082, 1086, 1078, 1085, 1072, 1103, 32, 1080, 1085, 1092, 1077, 1082, 1094, 1080, 1103>>,
        <<1041, 1072, 1082, 1090, 1077, 1088, 1080, 1103>>,
        <<1050, 1086, 1085, 1090, 1072, 1082, 1090, 1085, 1086, 45, 1073, 1099, 1090, 1086, 1074,
          1086, 1081>>,
        "children",
        <<SYMPTOMS_BY_ID[2], SYMPTOMS_BY_ID[1]>>,
        \* Gigiena kozhi, obrabotka mikrotravm
        Some(<<1043, 1080, 1075, 1080, 1077, 1085, 1072, 32, 1082, 1086, 1078, 1080, 44, 32, 1086, 1073,
               1088, 1072, 1073, 1086, 1090, 1082, 1072, 32, 1084, 1080, 1082, 1088, 1086, 1090, 1088,
               1072, 1074, 1084>>)),
    \* 32: Impetigo; Bakteriya; Kontaktno-bytovoj
    Disease(32,
        <<1048, 1084, 1087, 1077, 1090, 1080, 1075, 1086>>,
        <<1041, 1072, 1082, 1090, 1077, 1088, 1080, 1103>>,
        <<1050, 1086, 1085, 1090, 1072, 1082, 1090, 1085, 1086, 45, 1073, 1099, 1090, 1086, 1074,
          1086, 1081>>,
        "children",
        <<SYMPTOMS_BY_ID[2]>>,
        \* Gigiena, izolyaciya rebyonka do zazhivleniya elementov
        Some(<<1043, 1080, 1075, 1080, 1077, 1085, 1072, 44, 32, 1080, 1079, 1086, 1083, 1103, 1094, 1080,
               1103, 32, 1088, 1077, 1073, 1105, 1085, 1082, 1072, 32, 1076, 1086, 32, 1079, 1072, 1078,
               1080, 1074, 1083, 1077, 1085, 1080, 1103, 32, 1101, 1083, 1077, 1084, 1077, 1085, 1090,
               1086, 1074>>)),
    \* 33: Pedikulyoz; Parazit; Kontaktno-bytovoj
    Disease(33,
        <<1055, 1077, 1076, 1080, 1082, 1091, 1083, 1105, 1079>>,
        <<1055, 1072, 1088, 1072, 1079, 1080, 1090>>,
        <<1050, 1086, 1085, 1090, 1072, 1082, 1090, 1085, 1086, 45, 1073, 1099, 1090, 1086, 1074,
          1086, 1081>>,
        "children",
        <<SYMPTOMS_BY_ID[5]>>,
        \* Regulyarnyj osmotr volos, obrabotka golovnyh uborov
        Some(<<1056, 1077, 1075, 1091, 1083, 1103, 1088, 1085, 1099, 1081, 32, 1086, 1089, 1084, 1086,
               1090, 1088, 32, 1074, 1086, 1083, 1086, 1089, 44, 32, 1086, 1073, 1088, 1072, 1073, 1086,
               1090, 1082, 1072, 32, 1075, 1086, 1083, 1086, 1074, 1085, 1099, 1093, 32, 1091, 1073, 1086,
               1088, 1086, 1074>>)),
    \* 34: Streptodermiya; Bakteriya; Kontaktno-bytovoj
    Disease(34,
        <<1057, 1090, 1088, 1077, 1087, 1090, 1086, 1076, 1077, 1088, 1084, 1080, 1103>>,
        <<1041, 1072, 1082, 1090, 1077, 1088, 1080, 1103>>,
        <<1050, 1086, 1085, 1090, 1072, 1082, 1090, 1085, 1086, 45, 1073, 1099, 1090, 1086, 1074,
          1086, 1081>>,
        "children",
        <<SYMPTOMS_BY_ID[2]>>,
        \* Gigiena, obrabotka kozhnyh povrezhdenij
        Some(<<1043, 1080, 1075, 1080, 1077, 1085, 1072, 44, 32, 1086, 1073, 1088, 1072, 1073, 1086, 1090,
               1082, 1072, 32, 1082, 1086, 1078, 1085, 1099, 1093, 32, 1087, 1086, 1074, 1088, 1077, 1078,
               1076, 1077, 1085, 1080, 1081>>)),
    \* 35: Ostryj bronhit; Virus; Vozdushno-kapel'nyj
    Disease(35,
        <<1054, 1089, 1090, 1088, 1099, 1081, 32, 1073, 1088, 1086, 1085, 1093, 1080, 1090>>,
        <<1042, 1080, 1088, 1091, 1089>>,
        <<1042, 1086, 1079, 1076, 1091, 1096, 1085, 1086, 45, 1082, 1072, 1087, 1077, 1083, 1100,
          1085, 1099, 1081>>,
        "children",
        <<SYMPTOMS_BY_ID[3], SYMPTOMS_BY_ID[4], SYMPTOMS_BY_ID[1]>>,
        \* Izbegat' pereohlazhdeniya, sanaciya ochagov infekcii
        Some(<<1048, 1079, 1073, 1077, 1075, 1072, 1090, 1100, 32, 1087, 1077, 1088, 1077, 1086, 1093,
               1083, 1072, 1078, 1076, 1077, 1085, 1080, 1103, 44, 32, 1089, 1072, 1085, 1072, 1094, 1080,
               1103, 32, 1086, 1095, 1072, 1075, 1086, 1074, 32, 1080, 1085, 1092, 1077, 1082, 1094, 1080,
               1080>>)),
    \* 36: Pnevmoniya (bakterial'naya); Bakteriya; Vozdushno-kapel'nyj
    Disease(36,
        <<1055, 1085, 1077, 1074, 1084, 1086, 1085, 1080, 1103, 32, 40, 1073, 1072, 1082, 1090, 1077,
          1088, 1080, 1072, 1083, 1100, 1085, 1072, 1103, 41>>,
        <<1041, 1072, 1082, 1090, 1077, 1088, 1080, 1103>>,
        <<1042, 1086, 1079, 1076, 1091, 1096, 1085, 1086, 45, 1082, 1072, 1087, 1077, 1083, 1100,
          1085, 1099, 1081>>,
        "children",
        <<SYMPTOMS_BY_ID[3], SYMPTOMS_BY_ID[1], SYMPTOMS_BY_ID[5]>>,
        \* Vakcinaciya protiv pnevmokokka, svoevremennoe lechenie ORVI
        Some(<<1042, 1072, 1082, 1094, 1080, 1085, 1072, 1094, 1080, 1103, 32, 1087, 1088, 1086, 1090,
               1080, 1074, 32, 1087, 1085, 1077, 1074, 1084, 1086, 1082, 1086, 1082, 1082, 1072, 44, 32,
               1089, 1074, 1086, 1077, 1074, 1088, 1077, 1084, 1077, 1085, 1085, 1086, 1077, 32, 1083,
               1077, 1095, 1077, 1085, 1080, 1077, 32, 1054, 1056, 1042, 1048>>)),
    \* 37: Pnevmoniya (virusnaya); Virus; Vozdushno-kapel'nyj
    Disease(37,
        <<1055, 1085, 1077, 1074, 1084, 1086, 1085, 1080, 1103, 32, 40, 1074, 1080, 1088, 1091, 1089,
          1085, 1072, 1103, 41>>,
        <<1042, 1080, 1088, 1091, 1089>>,
        <<1042, 1086, 1079, 1076, 1091, 1096, 1085, 1086, 45, 1082, 1072, 1087, 1077, 1083, 1100,
          1085, 1099, 1081>>,
        "children",
        <<SYMPTOMS_BY_ID[3], SYMPTOMS_BY_ID[4], SYMPTOMS_BY_ID[1]>>,
        \* Profilaktika ORVI, izolyaciya zabolevshih
        Some(<<1055, 1088, 1086, 1092, 1080, 1083, 1072, 1082, 1090, 1080, 1082, 1072, 32, 1054, 1056,
               1042, 1048, 44, 32, 1080, 1079, 1086, 1083, 1103, 1094, 1080, 1103, 32, 1079, 1072, 1073,
               1086, 1083, 1077, 1074, 1096, 1080, 1093>>)),
    \* 38: Ostryj sinusit; Bakteriya; Vozdushno-kapel'nyj
    Disease(38,
        <<1054, 1089, 1090, 1088, 1099, 1081, 32, 1089, 1080, 1085, 1091, 1089, 1080, 1090>>,
        <<1041, 1072, 1082, 1090, 1077, 1088, 1080, 1103>>,
        <<1042, 1086, 1079, 1076, 1091, 1096, 1085, 1086, 45, 1082, 1072, 1087, 1077, 1083, 1100,
          1085, 1099, 1081>>,
        "children",
        <<SYMPTOMS_BY_ID[4], SYMPTOMS_BY_ID[5], SYMPTOMS_BY_ID[1]>>,
        \* Lechenie rinita, profilaktika pereohlazhdeniya
        Some(<<1051, 1077, 1095, 1077, 1085, 1080, 1077, 32, 1088, 1080, 1085, 1080, 1090, 1072, 44, 32,
               1087, 1088, 1086, 1092, 1080, 1083, 1072, 1082, 1090, 1080, 1082, 1072, 32, 1087, 1077,
               1088, 1077, 1086, 1093, 1083, 1072, 1078, 1076, 1077, 1085, 1080, 1103>>)),
    \* 39: Ostryj srednij otit; Bakteriya; Voshodyaschij put' iz nosoglotki
    Disease(39,
        <<1054, 1089, 1090, 1088, 1099, 1081, 32, 1089, 1088, 1077, 1076, 1085, 1080, 1081, 32, 1086,
          1090, 1080, 1090>>,
        <<1041, 1072, 1082, 1090, 1077, 1088, 1080, 1103>>,
        <<1042, 1086, 1089, 1093, 1086, 1076, 1103, 1097, 1080, 1081, 32, 1087, 1091, 1090, 1100, 32,
          1080, 1079, 32, 1085, 1086, 1089, 1086, 1075, 1083, 1086, 1090, 1082, 1080>>,
        "children",
        <<SYMPTOMS_BY_ID[1], SYMPTOMS_BY_ID[5]>>,
        \* Lechenie respiratornyh infekcij, zaschita ushej ot vody
        Some(<<1051, 1077, 1095, 1077, 1085, 1080, 1077, 32, 1088, 1077, 1089, 1087, 1080, 1088, 1072,
               1090, 1086, 1088, 1085, 1099, 1093, 32, 1080, 1085, 1092, 1077, 1082, 1094, 1080, 1081, 44,
               32, 1079, 1072, 1097, 1080, 1090, 1072, 32, 1091, 1096, 1077, 1081, 32, 1086, 1090, 32,
               1074, 1086, 1076, 1099>>)),
    \* 40: Virusnyj faringit; Virus; Vozdushno-kapel'nyj
    Disease(40,
        <<1042, 1080, 1088, 1091, 1089, 1085, 1099, 1081, 32, 1092, 1072, 1088, 1080, 1085, 1075,
          1080, 1090>>,
        <<1042, 1080, 1088, 1091, 1089>>,
        <<1042, 1086, 1079, 1076, 1091, 1096, 1085, 1086, 45, 1082, 1072, 1087, 1077, 1083, 1100,
          1085, 1099, 1081>>,
        "children",
        <<SYMPTOMS_BY_ID[8], SYMPTOMS_BY_ID[1], SYMPTOMS_BY_ID[5]>>,
        \* Gigiena, ogranichenie kontaktov v period zabolevaemosti
        Some(<<1043, 1080, 1075, 1080, 1077, 1085, 1072, 44, 32, 1086, 1075, 1088, 1072, 1085, 1080, 1095,
               1077, 1085, 1080, 1077, 32, 1082, 1086, 1085, 1090, 1072, 1082, 1090, 1086, 1074, 32, 1074,
               32, 1087, 1077, 1088, 1080, 1086, 1076, 32, 1079, 1072, 1073, 1086, 1083, 1077, 1074, 1072,
               1077, 1084, 1086, 1089, 1090, 1080>>)),
    \* 41: Mezadenit (virusnoj etiologii); Virus; Fekal'no-oral'nyj
    Disease(41,
        <<1052, 1077, 1079, 1072, 1076, 1077, 1085, 1080, 1090, 32, 40, 1074, 1080, 1088, 1091, 1089,
          1085, 1086, 1081, 32, 1101, 1090, 1080, 1086, 1083, 1086, 1075, 1080, 1080, 41>>,
        <<1042, 1080, 1088, 1091, 1089>>,
        <<1060, 1077, 1082, 1072, 1083, 1100, 1085, 1086, 45, 1086, 1088, 1072, 1083, 1100, 1085,
          1099, 1081>>,
        "children",
        <<SYMPTOMS_BY_ID[1], SYMPTOMS_BY_ID[5]>>,
        \* Gigiena pitaniya i ruk
        Some(<<1043, 1080, 1075, 1080, 1077, 1085, 1072, 32, 1087, 1080, 1090, 1072, 1085, 1080, 1103, 32,
               1080, 32, 1088, 1091, 1082>>)),
    \* 42: Toksoplazmoz (u detej); Parazit; Kontaktno-bytovoj
    Disease(42,
        <<1058, 1086, 1082, 1089, 1086, 1087, 1083, 1072, 1079, 1084, 1086, 1079, 32, 40, 1091, 32,
          1076, 1077, 1090, 1077, 1081, 41>>,
        <<1055, 1072, 1088, 1072, 1079, 1080, 1090>>,
        <<1050, 1086, 1085, 1090, 1072, 1082, 1090, 1085, 1086, 45, 1073, 1099, 1090, 1086, 1074,
          1086, 1081>>,
        "children",
        <<SYMPTOMS_BY_ID[10], SYMPTOMS_BY_ID[5]>>,
        \* Termicheskaya obrabotka myasa, gigiena pri uhode za zhivotnymi
        Some(<<1058, 1077, 1088, 1084, 1080, 1095, 1077, 1089, 1082, 1072, 1103, 32, 1086, 1073, 1088,
               1072, 1073, 1086, 1090, 1082, 1072, 32, 1084, 1103, 1089, 1072, 44, 32, 1075, 1080, 1075,
               1080, 1077, 1085, 1072, 32, 1087, 1088, 1080, 32, 1091, 1093, 1086, 1076, 1077, 32, 1079,
               1072, 32, 1078, 1080, 1074, 1086, 1090, 1085, 1099, 1084, 1080>>)),
    \* 43: Enterobioz (glistnaya invaziya); Parazit; Fekal'no-oral'nyj
    Disease(43,
        <<1069, 1085, 1090, 1077, 1088, 1086, 1073, 1080, 1086, 1079, 32, 40, 1075, 1083, 1080, 1089,
          1090, 1085, 1072, 1103, 32, 1080, 1085, 1074, 1072, 1079, 1080, 1103, 41>>,
        <<1055, 1072, 1088, 1072, 1079, 1080, 1090>>,
        <<1060, 1077, 1082, 1072, 1083, 1100, 1085, 1086, 45, 1086, 1088, 1072, 1083, 1100, 1085,
          1099, 1081>>,
        "children",
        <<SYMPTOMS_BY_ID[7], SYMPTOMS_BY_ID[5]>>,
        \* Gigiena ruk, korotko podstrizhennye nogti, obrabotka postel'nogo bel'ya
        Some(<<1043, 1080, 1075, 1080, 1077, 1085, 1072, 32, 1088, 1091, 1082, 44, 32, 1082, 1086, 1088,
               1086, 1090, 1082, 1086, 32, 1087, 1086, 1076, 1089, 1090, 1088, 1080, 1078, 1077, 1085,
               1085, 1099, 1077, 32, 1085, 1086, 1075, 1090, 1080, 44, 32, 1086, 1073, 1088, 1072, 1073,
               1086, 1090, 1082, 1072, 32, 1087, 1086, 1089, 1090, 1077, 1083, 1100, 1085, 1086, 1075,
               1086, 32, 1073, 1077, 1083, 1100, 1103>>)),
    \* 44: Kandidoz polosti rta (molochnica); Gribok; Kontaktno-bytovoj
    Disease(44,
        <<1050, 1072, 1085, 1076, 1080, 1076, 1086, 1079, 32, 1087, 1086, 1083, 1086, 1089, 1090,
          1080, 32, 1088, 1090, 1072, 32, 40, 1084, 1086, 1083, 1086, 1095, 1085, 1080, 1094, 1072, 41>>,
        <<1043, 1088, 1080, 1073, 1086, 1082>>,
        <<1050, 1086, 1085, 1090, 1072, 1082, 1090, 1085, 1086, 45, 1073, 1099, 1090, 1086, 1074,
          1086, 1081>>,
        "preschool",
        <<SYMPTOMS_BY_ID[8]>>,
        \* Gigiena polosti rta, steril'nost' sosok i butylochek
        Some(<<1043, 1080, 1075, 1080, 1077, 1085, 1072, 32, 1087, 1086, 1083, 1086, 1089, 1090, 1080, 32,
               1088, 1090, 1072, 44, 32, 1089, 1090, 1077, 1088, 1080, 1083, 1100, 1085, 1086, 1089, 1090,
               1100, 32, 1089, 1086, 1089, 1086, 1082, 32, 1080, 32, 1073, 1091, 1090, 1099, 1083, 1086,
               1095, 1077, 1082>>)),
    \* 45: Parvovirusnaya infekciya (infekcionnaya eritema); Virus; Vozdushno-kapel'nyj
    Disease(45,
        <<1055, 1072, 1088, 1074, 1086, 1074, 1080, 1088, 1091, 1089, 1085, 1072, 1103, 32, 1080,
          1085, 1092, 1077, 1082, 1094, 1080, 1103, 32, 40, 1080, 1085, 1092, 1077, 1082, 1094, 1080,
          1086, 1085, 1085, 1072, 1103, 32, 1101, 1088, 1080, 1090, 1077, 1084, 1072, 41>>,
        <<1042, 1080, 1088, 1091, 1089>>,
        <<1042, 1086, 1079, 1076, 1091, 1096, 1085, 1086, 45, 1082, 1072, 1087, 1077, 1083, 1100,
          1085, 1099, 1081>>,
        "children",
        <<SYMPTOMS_BY_ID[2], SYMPTOMS_BY_ID[1], SYMPTOMS_BY_ID[5]>>,
        \* Izolyaciya zabolevshih, soblyudenie gigieny
        Some(<<1048, 1079, 1086, 1083, 1103, 1094, 1080, 1103, 32, 1079, 1072, 1073, 1086, 1083, 1077,
               1074, 1096, 1080, 1093, 44, 32, 1089, 1086, 1073, 1083, 1102, 1076, 1077, 1085, 1080, 1077,
               32, 1075, 1080, 1075, 1080, 1077, 1085, 1099>>))
  >>

\* ------------------------------------------------------------------------
\* Statistics table built at import time (VKR.py 509-548)
\* ------------------------------------------------------------------------

YEARS == <<2021, 2022, 2023>>

\* "Vozdushno-kapel'nyj" (airborne), the literal compared at VKR.py 518
TRANSMISSION_AIRBORNE ==
  <<1042, 1086, 1079, 1076, 1091, 1096, 1085, 1086, 45, 1082, 1072, 1087, 1077, 1083, 1100,
    1085, 1099, 1081>>

\* "Fekal'no-oral'nyj" (fecal-oral), the literal compared at VKR.py 525
TRANSMISSION_FECAL_ORAL ==
  <<1060, 1077, 1082, 1072, 1083, 1100, 1085, 1086, 45, 1086, 1088, 1072, 1083, 1100, 1085,
    1099, 1081>>

\* round(x * k) in place of int(x * k): a faulty variant
int_mul_rounded(x, k10) == (x * k10 + 5) \div 10

\* int(x * k) for x >= 0 and a coefficient k written with one decimal digit,
\* given in tenths.  The float products of the table (every base 31..295 with
\* 0.9, 1.0, 1.1 and every base_year with the season coefficients) truncate to
\* the same integer as the exact decimal product.
int_mul(x, k10) == (x * k10) \div 10

\* year_coeff = 0.9 + 0.1 * (YEARS[0] - YEARS[0]), the same for every year: a
\* faulty variant
year_coeff_of_first_year(year) == 9 + 1 * (YEARS[1] - YEARS[1])

\* year_coeff = 0.9 + 0.1 * (year - YEARS[0]), in tenths
year_coeff(year) == 9 + 1 * (year - YEARS[1])

\* the coeffs dicts written with summer as the first key: a faulty variant
coeffs_summer_first(transmission) ==
  IF transmission = TRANSMISSION_AIRBORNE
  THEN << <<"summer", 6>>, <<"winter", 15>>, <<"spring", 11>>, <<"autumn", 10>> >>
  ELSE IF transmission = TRANSMISSION_FECAL_ORAL
  THEN << <<"summer", 16>>, <<"winter", 6>>, <<"spring", 9>>, <<"autumn", 12>> >>
  ELSE << <<"summer", 9>>, <<"winter", 10>>, <<"spring", 11>>, <<"autumn", 10>> >>

\* the coeffs dict of a transmission route, in insertion order, in tenths
coeffs(transmission) ==
  IF transmission = TRANSMISSION_AIRBORNE
  THEN << <<"winter", 15>>, <<"spring", 11>>, <<"summer", 6>>, <<"autumn", 10>> >>
  ELSE IF transmission = TRANSMISSION_FECAL_ORAL
  THEN << <<"winter", 6>>, <<"spring", 9>>, <<"summer", 16>>, <<"autumn", 12>> >>
  ELSE << <<"winter", 10>>, <<"spring", 11>>, <<"summer", 9>>, <<"autumn", 10>> >>

RECURSIVE Concat(_)
\* the lists of ss appended one after the other
Concat(ss) == IF Len(ss) = 0 THEN <<>> ELSE Head(ss) \o Concat(Tail(ss))

\* the loop body writing disease_id=base: a faulty variant
StatsOfYear_keyed_by_base(disease, year) ==
  LET base      == 25 + disease.id * 6
      base_year == int_mul(base, year_coeff(year))
      cs        == coeffs(disease.transmission)
  IN  [j \in 1..Len(cs) |->
         StatisticItem(base, year, cs[j][1], int_mul(base_year, cs[j][2]))]

\* body of "for year in YEARS" for one disease and one year
StatsOfYear(disease, year) ==
  LET base      == 25 + disease.id * 6
      base_year == int_mul(base, year_coeff(year))
      cs        == coeffs(disease.transmission)
  IN  [j \in 1..Len(cs) |->
         StatisticItem(disease.id, year, cs[j][1], int_mul(base_year, cs[j][2]))]

\* the loop over YEARS writing year=YEARS[0] in every item: a faulty variant
StatsOfDisease_first_year(disease) ==
  Concat([y \in 1..Len(YEARS) |-> StatsOfYear(disease, YEARS[1])])

\* body of "for disease in DISEASES_DB" for one disease
StatsOfDisease(disease) ==
  Concat([y \in 1..Len(YEARS) |-> StatsOfYear(disease, YEARS[y])])

\* the outer loop running over DISEASES_DB[:-1]: a faulty variant
StatisticsLoaded_without_last ==
  Concat([i \in 1..(Len(DiseasesLoaded) - 1) |-> StatsOfDisease(DiseasesLoaded[i])])

\* the whole loop: STATISTICS_DB after import
StatisticsLoaded ==
  Concat([i \in 1..Len(DiseasesLoaded) |-> StatsOfDisease(DiseasesLoaded[i])])

\* ------------------------------------------------------------------------
\* State
\* ------------------------------------------------------------------------

VARIABLES
  SYMPTOMS_DB,      \* module-level list of Symptom
  DISEASES_DB,      \* module-level list of Disease
  STATISTICS_DB,    \* module-level list of StatisticItem
  pc,               \* "idle": waiting for a request; "responded": a response is ready
  request,          \* the request being served
  response,         \* its response: [status, body]
  second,           \* STATISTICS_DB of a second run of the import loop
  loading,          \* iterations of "for year in YEARS" done by the first and second run
  workers,          \* the threads serving requests side by side
  totalCount,       \* page script: let totalCount
  lastData,         \* page script: let lastData, the rows of the table
  sortState,        \* page script: let sortState
  currentDisease,   \* page script: let currentDisease
  selectedId,       \* page script: let selectedId
  controls,         \* values of the inputs #search, #ageGroup, #transmission, #symptomFilter
  counter,          \* what updateCounter last wrote into #counter
  timeout,          \* the timer of debounce is armed
  listening,        \* loadFilters has attached the listeners of the filters
  fetches,          \* the fetch calls of the page that are awaiting their response
  issued            \* the url of the most recent fetch of loadDiseases and of loadDiseaseDetails

db == <<SYMPTOMS_DB, DISEASES_DB, STATISTICS_DB>>

\* the state of the page in the browser
page ==
  <<totalCount, lastData, sortState, currentDisease, selectedId, controls, counter, timeout,
    listening, fetches, issued>>

vars ==
  <<SYMPTOMS_DB, DISEASES_DB, STATISTICS_DB, pc, request, response, second, loading, workers,
    totalCount, lastData, sortState, currentDisease, selectedId, controls, counter, timeout,
    listening, fetches, issued>>

\* ------------------------------------------------------------------------
\* Helper functions (VKR.py 555-564)
\* ------------------------------------------------------------------------

\* the outcome of a function: a returned value, or a raised HTTPException
Return(value) == [raised |-> FALSE, value |-> value]

HTTPException(status_code, detail) ==
  [raised |-> TRUE, status_code |-> status_code, detail |-> detail]

\* "Zabolevanie ne najdeno"
DETAIL_DISEASE_NOT_FOUND ==
  <<1047, 1072, 1073, 1086, 1083, 1077, 1074, 1072, 1085, 1080, 1077, 32, 1085, 1077, 32,
    1085, 1072, 1081, 1076, 1077, 1085, 1086>>

\* "Net zabolevanij s dannym simptomom"
DETAIL_NO_DISEASE_WITH_SYMPTOM ==
  <<1053, 1077, 1090, 32, 1079, 1072, 1073, 1086, 1083, 1077, 1074, 1072, 1085, 1080, 1081,
    32, 1089, 32, 1076, 1072, 1085, 1085, 1099, 1084, 32, 1089, 1080, 1084, 1087, 1090, 1086,
    1084, 1086, 1084>>

\* get_disease_or_404 returning the loop variable after the loop: a faulty variant
get_disease_or_404_last(disease_id) ==
  LET hits == {i \in 1..Len(DISEASES_DB) : DISEASES_DB[i].id = disease_id}
  IN  IF hits # {}
      THEN Return(DISEASES_DB[Min(hits)])
      ELSE Return(DISEASES_DB[Len(DISEASES_DB)])

\* the first disease with that id, else 404
get_disease_or_404(disease_id) ==
  LET hits == {i \in 1..Len(DISEASES_DB) : DISEASES_DB[i].id = disease_id}
  IN  IF hits # {}
      THEN Return(DISEASES_DB[Min(hits)])
      ELSE HTTPException(404, DETAIL_DISEASE_NOT_FOUND)

\* attach_stats without the disease_id test: a faulty variant
attach_stats_unfiltered(disease) ==
  DiseaseWithStats(disease, STATISTICS_DB)

attach_stats(disease) ==
  LET stats == SelectSeq(STATISTICS_DB, LAMBDA s : s.disease_id = disease.id)
  IN  DiseaseWithStats(disease, stats)

\* ------------------------------------------------------------------------
\* Endpoints (VKR.py 572-656): the value each handler produces
\* ------------------------------------------------------------------------

\* shorts skipping the first element: a faulty variant
shorts_skipping_first(result) ==
  [i \in 1..(Len(result) - 1) |->
     DiseaseShort(result[i + 1].id, result[i + 1].name, result[i + 1].age_group,
                  result[i + 1].pathogen_type)]

\* [DiseaseShort(id=d.id, ...) for d in result]
shorts(result) ==
  [i \in 1..Len(result) |->
     DiseaseShort(result[i].id, result[i].name, result[i].age_group,
                  result[i].pathogen_type)]

\* if transmission: ... (VKR.py 581-583), without strip(): a faulty variant
by_transmission_unstripped(result, transmission) ==
  IF truthy(transmission)
  THEN LET t == lower(transmission[1])
       IN  SelectSeq(result, LAMBDA d : lower(d.transmission) = t)
  ELSE result

\* if transmission: ... (VKR.py 581-583)
by_transmission(result, transmission) ==
  IF truthy(transmission)
  THEN LET t == strip(lower(transmission[1]))
       IN  SelectSeq(result, LAMBDA d : lower(d.transmission) = t)
  ELSE result

\* if age_group: ... (VKR.py 585-586) keeping the other groups: a faulty variant
by_age_group_negated(result, age_group) ==
  IF age_group # None /\ AgeGroupValue[age_group[1]] # <<>>
  THEN SelectSeq(result, LAMBDA d : d.age_group # age_group[1])
  ELSE result

\* if age_group: ... (VKR.py 585-586); a member of the str enum is true when
\* its value is not empty
by_age_group(result, age_group) ==
  IF age_group # None /\ AgeGroupValue[age_group[1]] # <<>>
  THEN SelectSeq(result, LAMBDA d : d.age_group = age_group[1])
  ELSE result

\* if pathogen_type: ... (VKR.py 588-590) comparing the label as stored: a
\* faulty variant
by_pathogen_type_as_stored(result, pathogen_type) ==
  IF truthy(pathogen_type)
  THEN LET p == strip(lower(pathogen_type[1]))
       IN  SelectSeq(result, LAMBDA d : d.pathogen_type = p)
  ELSE result

\* if pathogen_type: ... (VKR.py 588-590)
by_pathogen_type(result, pathogen_type) ==
  IF truthy(pathogen_type)
  THEN LET p == strip(lower(pathogen_type[1]))
       IN  SelectSeq(result, LAMBDA d : lower(d.pathogen_type) = p)
  ELSE result

\* if q: ... (VKR.py 592-594) matching d.name as stored: a faulty variant
by_name_case_sensitive(result, q) ==
  IF truthy(q)
  THEN LET query_norm == strip(lower(q[1]))
       IN  SelectSeq(result, LAMBDA d : contains(query_norm, d.name))
  ELSE result

\* if q: ... (VKR.py 592-594)
by_name(result, q) ==
  IF truthy(q)
  THEN LET query_norm == strip(lower(q[1]))
       IN  SelectSeq(result, LAMBDA d : contains(query_norm, lower(d.name)))
  ELSE result

\* list_diseases with the pathogen filter restarting from DISEASES_DB: a faulty variant
list_diseases_restarting(transmission, age_group, pathogen_type, q) ==
  LET r1 == by_transmission(DISEASES_DB, transmission)
      r2 == by_age_group(r1, age_group)
      r3 == IF truthy(pathogen_type) THEN by_pathogen_type(DISEASES_DB, pathogen_type) ELSE r2
      r4 == by_name(r3, q)
  IN  Return(shorts(r4))

list_diseases(transmission, age_group, pathogen_type, q) ==
  LET r0 == DISEASES_DB
      r1 == by_transmission(r0, transmission)
      r2 == by_age_group(r1, age_group)
      r3 == by_pathogen_type(r2, pathogen_type)
      r4 == by_name(r3, q)
  IN  Return(shorts(r4))

get_disease(disease_id) ==
  LET disease == get_disease_or_404(disease_id)
  IN  IF disease.raised THEN disease ELSE Return(attach_stats(disease.value))

list_symptoms == Return(SYMPTOMS_DB)

\* search_by_symptom looking at the first symptom only: a faulty variant
search_by_symptom_first(symptom_id) ==
  LET result == SelectSeq(DISEASES_DB,
                  LAMBDA d : Len(d.symptoms) > 0 /\ d.symptoms[1].id = symptom_id)
  IN  IF Len(result) = 0
      THEN HTTPException(404, DETAIL_NO_DISEASE_WITH_SYMPTOM)
      ELSE Return(shorts(result))

search_by_symptom(symptom_id) ==
  LET result == SelectSeq(DISEASES_DB,
                  LAMBDA d : \E k \in 1..Len(d.symptoms) : d.symptoms[k].id = symptom_id)
  IN  IF Len(result) = 0
      THEN HTTPException(404, DETAIL_NO_DISEASE_WITH_SYMPTOM)
      ELSE Return(shorts(result))

\* get_statistics raising 404 on an empty result, as search_by_symptom does: a faulty variant
get_statistics_or_404(year, season, disease_id) ==
  LET s0 == STATISTICS_DB
      s1 == IF year # None THEN SelectSeq(s0, LAMBDA s : s.year = year[1]) ELSE s0
      s2 == IF season # None THEN SelectSeq(s1, LAMBDA s : s.season = season[1]) ELSE s1
      s3 == IF disease_id # None
            THEN SelectSeq(s2, LAMBDA s : s.disease_id = disease_id[1])
            ELSE s2
  IN  IF Len(s3) = 0 THEN HTTPException(404, DETAIL_DISEASE_NOT_FOUND) ELSE Return(s3)

\* get_statistics with the season filter restarting from STATISTICS_DB: a faulty variant
get_statistics_restarting(year, season, disease_id) ==
  LET s0 == STATISTICS_DB
      s1 == IF year # None THEN SelectSeq(s0, LAMBDA s : s.year = year[1]) ELSE s0
      s2 == IF season # None THEN SelectSeq(s0, LAMBDA s : s.season = season[1]) ELSE s1
      s3 == IF disease_id # None
            THEN SelectSeq(s2, LAMBDA s : s.disease_id = disease_id[1])
            ELSE s2
  IN  Return(s3)

get_statistics(year, season, disease_id) ==
  LET s0 == STATISTICS_DB
      s1 == IF year # None THEN SelectSeq(s0, LAMBDA s : s.year = year[1]) ELSE s0
      s2 == IF season # None THEN SelectSeq(s1, LAMBDA s : s.season = season[1]) ELSE s1
      s3 == IF disease_id # None
            THEN SelectSeq(s2, LAMBDA s : s.disease_id = disease_id[1])
            ELSE s2
  IN  Return(s3)

\* s < t in Python's str ordering (code point by code point, a prefix first)
str_less(s, t) ==
  \E k \in 1..(Len(t)) :
     /\ \A j \in 1..(k - 1) : j <= Len(s) /\ s[j] = t[j]
     /\ k - 1 <= Len(s)
     /\ (k = Len(s) + 1 \/ (k <= Len(s) /\ s[k] < t[k]))

\* sorted(a set of str): the element at position i has i - 1 smaller ones
sorted(S) ==
  [i \in 1..Cardinality(S) |->
     CHOOSE x \in S : Cardinality({y \in S : str_less(y, x)}) = i - 1]

\* filter_meta listing the labels disease by disease, neither sorted nor
\* collected into a set: a faulty variant
filter_meta_unsorted ==
  Return(
    [age_groups     |-> [i \in 1..Len(DISEASES_DB) |-> AgeGroupValue[DISEASES_DB[i].age_group]],
     transmissions  |-> [i \in 1..Len(DISEASES_DB) |-> DISEASES_DB[i].transmission],
     pathogen_types |-> [i \in 1..Len(DISEASES_DB) |-> DISEASES_DB[i].pathogen_type]])

filter_meta ==
  Return(
    [age_groups     |-> sorted({AgeGroupValue[DISEASES_DB[i].age_group] :
                                  i \in 1..Len(DISEASES_DB)}),
     transmissions  |-> sorted({DISEASES_DB[i].transmission : i \in 1..Len(DISEASES_DB)}),
     pathogen_types |-> sorted({DISEASES_DB[i].pathogen_type : i \in 1..Len(DISEASES_DB)})])

\* ------------------------------------------------------------------------
\* Requests tried by the model
\* ------------------------------------------------------------------------

\* str.upper() on one code point (used to build arguments only)
upper_char(c) ==
  IF c \in 97..122 THEN c - 32
  ELSE IF c \in 1072..1103 THEN c - 32
  ELSE IF c \in 1104..1119 THEN c - 80
  ELSE c

upper(s) == [i \in 1..Len(s) |-> upper_char(s[i])]

\* runs of spaces or of tabs, up to MaxPad long (the empty string included)
Pads == {[i \in 1..k |-> c] : k \in 0..MaxPad, c \in {32, 9}}

\* a label as a client may type it: padded, in another letter case, cut short
TextVariants(L) ==
  {p1 \o L \o p2 : p1 \in Pads, p2 \in Pads}
    \cup {lower(L), upper(L), SubSeq(L, 1, Len(L) - 1), SubSeq(L, 2, Len(L))}

TransmissionLabels == {DiseasesLoaded[i].transmission : i \in 1..Len(DiseasesLoaded)}

PathogenLabels == {DiseasesLoaded[i].pathogen_type : i \in 1..Len(DiseasesLoaded)}

\* the fragments of a name that are 1..MaxQLen long
Fragments(name) ==
  {SubSeq(name, p[1], p[1] + p[2] - 1) :
     p \in {x \in (1..Len(name)) \X (1..MaxQLen) : x[1] + x[2] - 1 <= Len(name)}}

\* names whose fragments are searched for: "Kor'", "Vetryanaya ospa", "ORVI"
QSeeds == {DiseasesLoaded[1].name, DiseasesLoaded[3].name, DiseasesLoaded[12].name}

\* "virus", as in "Rotavirusnaya infekciya"
QCommon == SubSeq(DiseasesLoaded[7].name, 5, 9)

QWords == QSeeds \cup {QCommon} \cup UNION {Fragments(n) : n \in QSeeds}

TransmissionArgs ==
  {None} \cup {Some(v) : v \in Pads \cup UNION {TextVariants(L) : L \in TransmissionLabels}}

PathogenArgs ==
  {None} \cup {Some(v) : v \in Pads \cup UNION {TextVariants(L) : L \in PathogenLabels}}

QArgs ==
  {None} \cup {Some(v) : v \in Pads \cup UNION {TextVariants(w) : w \in QWords}}

AgeGroupArgs == {None} \cup {Some(AgeGroup[i]) : i \in 1..Len(AgeGroup)}

\* a plain value of each filter, combined with the variants of another
PlainTransmission == {None, Some(TRANSMISSION_AIRBORNE)}

PlainAgeGroup == {None, Some("children")}

PlainPathogen == {None, Some(DiseasesLoaded[1].pathogen_type)}

PlainQ == {None, Some(QCommon)}

\* (transmission, age_group, pathogen_type, q) of the GET /diseases requests
ListDiseasesArgs ==
  (TransmissionArgs \X PlainAgeGroup \X PlainPathogen \X PlainQ)
    \cup (PlainTransmission \X AgeGroupArgs \X PlainPathogen \X PlainQ)
    \cup (PlainTransmission \X PlainAgeGroup \X PathogenArgs \X PlainQ)
    \cup ({None} \X PlainAgeGroup \X PlainPathogen \X QArgs)

DiseaseIdArgs == (1 - IdSlack)..(Len(DiseasesLoaded) + IdSlack)

SymptomIdArgs == (1 - IdSlack)..(Len(SymptomsLoaded) + IdSlack)

YearArgs == (YEARS[1] - YearSlack)..(YEARS[Len(YEARS)] + YearSlack)

\* ------------------------------------------------------------------------
\* Request handling
\* ------------------------------------------------------------------------

NoRequest ==
  [op |-> "none", transmission |-> None, age_group |-> None, pathogen_type |-> None,
   q |-> None, disease_id |-> None, symptom_id |-> None, year |-> None, season |-> None]

NoResponse == [status |-> 0, body |-> <<>>]

\* what the framework sends for a handler's outcome
Respond(outcome) ==
  IF outcome.raised
  THEN [status |-> outcome.status_code, body |-> [detail |-> outcome.detail]]
  ELSE [status |-> 200, body |-> outcome.value]

\* ------------------------------------------------------------------------
\* The page script (VKR.py 1159-1663): its variables when the page opens
\* ------------------------------------------------------------------------

\* in-flight fetch calls of one function that the model lets overlap
MaxInFlight == 2

\* rows of the table, counted from the top, that the model lets be clicked
MaxRows == 3

\* nothing written into #counter yet
NoCounter == [text |-> "", shown |-> <<>>]

\* the page opened with a total typed when the dataset had one disease less:
\* a faulty variant
PageOpened_stale_total ==
  /\ totalCount = 44
  /\ lastData = <<>>
  /\ sortState = [column |-> "id", direction |-> "asc"]
  /\ currentDisease = None
  /\ selectedId = None
  /\ controls = [search |-> <<>>, ageGroup |-> <<>>, transmission |-> <<>>,
                 symptomFilter |-> <<>>]
  /\ counter = NoCounter
  /\ timeout = FALSE
  /\ listening = FALSE
  /\ fetches = {}
  /\ issued = [loadDiseases |-> None, loadDiseaseDetails |-> None]

\* the let declarations of the script (VKR.py 1160-1166) and the empty inputs
\* of the form; loadFilters has been called and has not finished
PageOpened ==
  /\ totalCount = 45
  /\ lastData = <<>>
  /\ sortState = [column |-> "id", direction |-> "asc"]
  /\ currentDisease = None
  /\ selectedId = None
  /\ controls = [search |-> <<>>, ageGroup |-> <<>>, transmission |-> <<>>,
                 symptomFilter |-> <<>>]
  /\ counter = NoCounter
  /\ timeout = FALSE
  /\ listening = FALSE
  /\ fetches = {}
  /\ issued = [loadDiseases |-> None, loadDiseaseDetails |-> None]

\* the iterations of "for year in YEARS" in one run of the import loop
LoadSteps == Len(DiseasesLoaded) * Len(YEARS)

\* threads of the server's pool that the model lets run side by side
NWorkers == 2

Workers == 1..NWorkers

\* a thread that is serving no request
IdleWorker == [pc |-> "idle", request |-> NoRequest, result |-> <<>>, response |-> NoResponse]

\* the import with one more symptom in SYMPTOMS_DB that no disease lists: a
\* faulty variant
Init_unused_symptom ==
  /\ SYMPTOMS_DB = SymptomsLoaded
                     \o <<Symptom(Len(SymptomsLoaded) + 1, SymptomsLoaded[1].name, None)>>
  /\ DISEASES_DB = DiseasesLoaded
  /\ STATISTICS_DB = StatisticsLoaded
  /\ pc = "idle"
  /\ request = NoRequest
  /\ response = NoResponse
  /\ second = StatisticsLoaded
  /\ loading = <<LoadSteps, LoadSteps>>
  /\ workers = [w \in Workers |-> IdleWorker]
  /\ PageOpened

\* the import with the id of the first disease typed again for the second: a
\* faulty variant
Init_repeated_id ==
  /\ SYMPTOMS_DB = SymptomsLoaded
  /\ DISEASES_DB = [DiseasesLoaded EXCEPT ![2].id = DiseasesLoaded[1].id]
  /\ STATISTICS_DB = StatisticsLoaded
  /\ pc = "idle"
  /\ request = NoRequest
  /\ response = NoResponse
  /\ second = StatisticsLoaded
  /\ loading = <<LoadSteps, LoadSteps>>
  /\ workers = [w \in Workers |-> IdleWorker]
  /\ PageOpened

Init ==
  /\ SYMPTOMS_DB = SymptomsLoaded
  /\ DISEASES_DB = DiseasesLoaded
  /\ STATISTICS_DB = StatisticsLoaded
  /\ pc = "idle"
  /\ request = NoRequest
  /\ response = NoResponse
  /\ second = StatisticsLoaded
  /\ loading = <<LoadSteps, LoadSteps>>
  /\ workers = [w \in Workers |-> IdleWorker]
  /\ PageOpened

\* GET /diseases
GET_diseases ==
  /\ pc = "idle"
  /\ \E a \in ListDiseasesArgs :
       /\ request' = [NoRequest EXCEPT !.op = "list_diseases", !.transmission = a[1],
                        !.age_group = a[2], !.pathogen_type = a[3], !.q = a[4]]
       /\ response' = Respond(list_diseases(a[1], a[2], a[3], a[4]))
  /\ pc' = "responded"
  /\ UNCHANGED db
  /\ UNCHANGED <<second, loading, workers, page>>

\* GET /diseases/{disease_id}
GET_disease ==
  /\ pc = "idle"
  /\ \E disease_id \in DiseaseIdArgs :
       /\ request' = [NoRequest EXCEPT !.op = "get_disease", !.disease_id = Some(disease_id)]
       /\ response' = Respond(get_disease(disease_id))
  /\ pc' = "responded"
  /\ UNCHANGED db
  /\ UNCHANGED <<second, loading, workers, page>>

\* GET /symptoms
GET_symptoms ==
  /\ pc = "idle"
  /\ request' = [NoRequest EXCEPT !.op = "list_symptoms"]
  /\ response' = Respond(list_symptoms)
  /\ pc' = "responded"
  /\ UNCHANGED db
  /\ UNCHANGED <<second, loading, workers, page>>

\* GET /search/by-symptom/{symptom_id}
GET_search_by_symptom ==
  /\ pc = "idle"
  /\ \E symptom_id \in SymptomIdArgs :
       /\ request' = [NoRequest EXCEPT !.op = "search_by_symptom",
                        !.symptom_id = Some(symptom_id)]
       /\ response' = Respond(search_by_symptom(symptom_id))
  /\ pc' = "responded"
  /\ UNCHANGED db
  /\ UNCHANGED <<second, loading, workers, page>>

\* GET /statistics filtering the module-level list in place
\* (STATISTICS_DB[:] = ...): a faulty variant
GET_statistics_in_place ==
  /\ pc = "idle"
  /\ \E year \in {None} \cup {Some(y) : y \in YearArgs},
        season \in {None} \cup {Some(Season[i]) : i \in 1..Len(Season)},
        disease_id \in {None} \cup {Some(i) : i \in DiseaseIdArgs} :
       /\ request' = [NoRequest EXCEPT !.op = "get_statistics", !.year = year,
                        !.season = season, !.disease_id = disease_id]
       /\ response' = Respond(get_statistics(year, season, disease_id))
       /\ STATISTICS_DB' = get_statistics(year, season, disease_id).value
  /\ pc' = "responded"
  /\ UNCHANGED <<SYMPTOMS_DB, DISEASES_DB>>
  /\ UNCHANGED <<second, loading, workers, page>>

\* GET /statistics
GET_statistics ==
  /\ pc = "idle"
  /\ \E year \in {None} \cup {Some(y) : y \in YearArgs},
        season \in {None} \cup {Some(Season[i]) : i \in 1..Len(Season)},
        disease_id \in {None} \cup {Some(i) : i \in DiseaseIdArgs} :
       /\ request' = [NoRequest EXCEPT !.op = "get_statistics", !.year = year,
                        !.season = season, !.disease_id = disease_id]
       /\ response' = Respond(get_statistics(year, season, disease_id))
  /\ pc' = "responded"
  /\ UNCHANGED db
  /\ UNCHANGED <<second, loading, workers, page>>

\* GET /meta/filters
GET_meta_filters ==
  /\ pc = "idle"
  /\ request' = [NoRequest EXCEPT !.op = "filter_meta"]
  /\ response' = Respond(filter_meta)
  /\ pc' = "responded"
  /\ UNCHANGED db
  /\ UNCHANGED <<second, loading, workers, page>>

\* the response is sent and the server waits for the next request
SendResponse ==
  /\ pc = "responded"
  /\ pc' = "idle"
  /\ request' = NoRequest
  /\ response' = NoResponse
  /\ UNCHANGED db
  /\ UNCHANGED <<second, loading, workers, page>>

Next ==
  \/ GET_diseases
  \/ GET_disease
  \/ GET_symptoms
  \/ GET_search_by_symptom
  \/ GET_statistics
  \/ GET_meta_filters
  \/ SendResponse

Spec == Init /\ [][Next]_vars

\* ------------------------------------------------------------------------
\* The import loop, one iteration at a time, run twice on the same dataset
\* ------------------------------------------------------------------------

\* every order of the entries: the iteration order of an unordered
\* collection: a faulty variant
items_unordered(cs) ==
  {[j \in 1..Len(cs) |-> cs[p[j]]] : p \in Permutations(1..Len(cs))}

\* the orders in which coeffs.items() can yield the entries: a dict yields
\* them in insertion order
items(cs) == {cs}

\* the items appended by iteration k (from 0) of "for year in YEARS", the
\* seasons taken in the order cs
ItemsOfIteration(k, cs) ==
  LET disease   == DISEASES_DB[(k \div Len(YEARS)) + 1]
      year      == YEARS[(k % Len(YEARS)) + 1]
      base      == 25 + disease.id * 6
      base_year == int_mul(base, year_coeff(year))
  IN  [j \in 1..Len(cs) |->
         StatisticItem(disease.id, year, cs[j][1], int_mul(base_year, cs[j][2]))]

\* the coeffs dict built in iteration k
CoeffsOfIteration(k) == coeffs(DISEASES_DB[(k \div Len(YEARS)) + 1].transmission)

InitImport ==
  /\ SYMPTOMS_DB = SymptomsLoaded
  /\ DISEASES_DB = DiseasesLoaded
  /\ STATISTICS_DB = <<>>
  /\ second = <<>>
  /\ loading = <<0, 0>>
  /\ pc = "import"
  /\ request = NoRequest
  /\ response = NoResponse
  /\ workers = [w \in Workers |-> IdleWorker]
  /\ PageOpened

\* one iteration of the loop in the first run
ImportStep ==
  /\ pc = "import"
  /\ loading[1] < LoadSteps
  /\ \E cs \in items(CoeffsOfIteration(loading[1])) :
       STATISTICS_DB' = STATISTICS_DB \o ItemsOfIteration(loading[1], cs)
  /\ loading' = [loading EXCEPT ![1] = @ + 1]
  /\ UNCHANGED <<SYMPTOMS_DB, DISEASES_DB, pc, request, response, second, workers, page>>

\* one iteration of the loop in the second run
ReimportStep ==
  /\ pc = "import"
  /\ loading[2] < LoadSteps
  /\ \E cs \in items(CoeffsOfIteration(loading[2])) :
       second' = second \o ItemsOfIteration(loading[2], cs)
  /\ loading' = [loading EXCEPT ![2] = @ + 1]
  /\ UNCHANGED <<SYMPTOMS_DB, DISEASES_DB, STATISTICS_DB, pc, request, response, workers, page>>

NextImport ==
  \/ ImportStep
  \/ ReimportStep

SpecImport == InitImport /\ [][NextImport]_vars

\* ------------------------------------------------------------------------
\* Requests served side by side by the threads of the pool, one statement of
\* a handler at a time
\* ------------------------------------------------------------------------

\* the requests the threads are given
ConcurrentRequests ==
  {[NoRequest EXCEPT !.op = "list_diseases"],
   [NoRequest EXCEPT !.op = "list_diseases", !.transmission = Some(TRANSMISSION_AIRBORNE),
      !.age_group = Some("children"), !.pathogen_type = Some(DiseasesLoaded[1].pathogen_type),
      !.q = Some(QCommon)],
   [NoRequest EXCEPT !.op = "get_disease", !.disease_id = Some(DiseasesLoaded[1].id)],
   [NoRequest EXCEPT !.op = "get_disease", !.disease_id = Some(0)],
   [NoRequest EXCEPT !.op = "list_symptoms"],
   [NoRequest EXCEPT !.op = "search_by_symptom", !.symptom_id = Some(SymptomsLoaded[2].id)],
   [NoRequest EXCEPT !.op = "search_by_symptom", !.symptom_id = Some(0)],
   [NoRequest EXCEPT !.op = "get_statistics", !.year = Some(YEARS[2]), !.season = Some("summer"),
      !.disease_id = Some(DiseasesLoaded[7].id)],
   [NoRequest EXCEPT !.op = "filter_meta"]}

\* thread w is at statement at of the handler op
At(w, op, at) == workers[w].pc = at /\ workers[w].request.op = op

\* thread w goes on to statement at with its local list set to result
Goto(w, at, result) ==
  workers' = [workers EXCEPT ![w].pc = at, ![w].result = result]

\* thread w has its response ready
Finish(w, outcome) ==
  workers' = [workers EXCEPT ![w].pc = "responded", ![w].response = Respond(outcome)]

\* what the threads do not touch
ServingFrame ==
  <<SYMPTOMS_DB, DISEASES_DB, STATISTICS_DB, pc, request, response, second, loading, page>>

\* a thread of the pool takes a request
Accept(w) ==
  /\ workers[w].pc = "idle"
  /\ \E r \in ConcurrentRequests :
       workers' = [workers EXCEPT ![w] = [IdleWorker EXCEPT !.pc = "start", !.request = r]]
  /\ UNCHANGED ServingFrame

\* result = DISEASES_DB with result a name shared by all calls of
\* list_diseases (global result): a faulty variant
ListStart_shared(w) ==
  /\ At(w, "list_diseases", "start")
  /\ workers' = [v \in Workers |->
                   IF v = w
                   THEN [workers[v] EXCEPT !.pc = "transmission", !.result = DISEASES_DB]
                   ELSE IF workers[v].request.op = "list_diseases"
                             /\ workers[v].pc \notin {"idle", "start", "responded"}
                   THEN [workers[v] EXCEPT !.result = DISEASES_DB]
                   ELSE workers[v]]
  /\ UNCHANGED ServingFrame

\* list_diseases: result = DISEASES_DB (VKR.py 579)
ListStart(w) ==
  /\ At(w, "list_diseases", "start")
  /\ Goto(w, "transmission", DISEASES_DB)
  /\ UNCHANGED ServingFrame

\* list_diseases: if transmission: ... (VKR.py 581-583)
ListByTransmission(w) ==
  /\ At(w, "list_diseases", "transmission")
  /\ Goto(w, "age_group", by_transmission(workers[w].result, workers[w].request.transmission))
  /\ UNCHANGED ServingFrame

\* list_diseases: if age_group: ... (VKR.py 585-586)
ListByAgeGroup(w) ==
  /\ At(w, "list_diseases", "age_group")
  /\ Goto(w, "pathogen_type", by_age_group(workers[w].result, workers[w].request.age_group))
  /\ UNCHANGED ServingFrame

\* list_diseases: if pathogen_type: ... (VKR.py 588-590)
ListByPathogenType(w) ==
  /\ At(w, "list_diseases", "pathogen_type")
  /\ Goto(w, "q", by_pathogen_type(workers[w].result, workers[w].request.pathogen_type))
  /\ UNCHANGED ServingFrame

\* list_diseases: if q: ... (VKR.py 592-594)
ListByName(w) ==
  /\ At(w, "list_diseases", "q")
  /\ Goto(w, "return", by_name(workers[w].result, workers[w].request.q))
  /\ UNCHANGED ServingFrame

\* list_diseases: return [DiseaseShort(...) for d in result] (VKR.py 596-604)
ListReturn(w) ==
  /\ At(w, "list_diseases", "return")
  /\ Finish(w, Return(shorts(workers[w].result)))
  /\ UNCHANGED ServingFrame

\* get_disease: disease = get_disease_or_404(disease_id) (VKR.py 609)
DiseaseLookup(w) ==
  /\ At(w, "get_disease", "start")
  /\ LET disease == get_disease_or_404(workers[w].request.disease_id[1])
     IN  IF disease.raised THEN Finish(w, disease) ELSE Goto(w, "attach", disease.value)
  /\ UNCHANGED ServingFrame

\* get_disease: return attach_stats(disease) (VKR.py 610)
DiseaseAttach(w) ==
  /\ At(w, "get_disease", "attach")
  /\ Finish(w, Return(attach_stats(workers[w].result)))
  /\ UNCHANGED ServingFrame

\* list_symptoms: return SYMPTOMS_DB (VKR.py 615)
SymptomsReturn(w) ==
  /\ At(w, "list_symptoms", "start")
  /\ Finish(w, list_symptoms)
  /\ UNCHANGED ServingFrame

\* search_by_symptom: the comprehension over DISEASES_DB (VKR.py 620)
SearchSelect(w) ==
  /\ At(w, "search_by_symptom", "start")
  /\ Goto(w, "check",
          SelectSeq(DISEASES_DB,
            LAMBDA d : \E k \in 1..Len(d.symptoms) :
                         d.symptoms[k].id = workers[w].request.symptom_id[1]))
  /\ UNCHANGED ServingFrame

\* search_by_symptom: if not result: raise ...; return [...] (VKR.py 621-631)
SearchReturn(w) ==
  /\ At(w, "search_by_symptom", "check")
  /\ IF Len(workers[w].result) = 0
     THEN Finish(w, HTTPException(404, DETAIL_NO_DISEASE_WITH_SYMPTOM))
     ELSE Finish(w, Return(shorts(workers[w].result)))
  /\ UNCHANGED ServingFrame

\* get_statistics: stats = STATISTICS_DB (VKR.py 640)
StatisticsStart(w) ==
  /\ At(w, "get_statistics", "start")
  /\ Goto(w, "year", STATISTICS_DB)
  /\ UNCHANGED ServingFrame

\* get_statistics: if year is not None: ... (VKR.py 641-642)
StatisticsByYear(w) ==
  /\ At(w, "get_statistics", "year")
  /\ Goto(w, "season",
          IF workers[w].request.year # None
          THEN SelectSeq(workers[w].result, LAMBDA s : s.year = workers[w].request.year[1])
          ELSE workers[w].result)
  /\ UNCHANGED ServingFrame

\* get_statistics: if season is not None: ... (VKR.py 643-644)
StatisticsBySeason(w) ==
  /\ At(w, "get_statistics", "season")
  /\ Goto(w, "disease_id",
          IF workers[w].request.season # None
          THEN SelectSeq(workers[w].result, LAMBDA s : s.season = workers[w].request.season[1])
          ELSE workers[w].result)
  /\ UNCHANGED ServingFrame

\* get_statistics: if disease_id is not None: ...; return stats (VKR.py 645-647)
StatisticsByDisease(w) ==
  /\ At(w, "get_statistics", "disease_id")
  /\ Finish(w,
       Return(IF workers[w].request.disease_id # None
              THEN SelectSeq(workers[w].result,
                     LAMBDA s : s.disease_id = workers[w].request.disease_id[1])
              ELSE workers[w].result))
  /\ UNCHANGED ServingFrame

\* filter_meta: the three sorted sets (VKR.py 652-656)
MetaReturn(w) ==
  /\ At(w, "filter_meta", "start")
  /\ Finish(w, filter_meta)
  /\ UNCHANGED ServingFrame

\* the response of thread w is sent and the thread is free again
Deliver(w) ==
  /\ workers[w].pc = "responded"
  /\ workers' = [workers EXCEPT ![w] = IdleWorker]
  /\ UNCHANGED ServingFrame

NextConcurrent ==
  \E w \in Workers :
    \/ Accept(w)
    \/ ListStart(w)
    \/ ListByTransmission(w)
    \/ ListByAgeGroup(w)
    \/ ListByPathogenType(w)
    \/ ListByName(w)
    \/ ListReturn(w)
    \/ DiseaseLookup(w)
    \/ DiseaseAttach(w)
    \/ SymptomsReturn(w)
    \/ SearchSelect(w)
    \/ SearchReturn(w)
    \/ StatisticsStart(w)
    \/ StatisticsByYear(w)
    \/ StatisticsBySeason(w)
    \/ StatisticsByDisease(w)
    \/ MetaReturn(w)
    \/ Deliver(w)

SpecConcurrent == Init /\ [][NextConcurrent]_vars

\* ------------------------------------------------------------------------
\* The page script (VKR.py 1159-1663): events of the page and responses to
\* its fetch calls
\* ------------------------------------------------------------------------

RECURSIVE String(_)
\* String(n) of JavaScript for an integer n >= 0: its decimal digits
String(n) == IF n < 10 THEN <<48 + n>> ELSE String(n \div 10) \o <<48 + (n % 10)>>

RECURSIVE int(_)
\* the int path parameter parsed from its decimal digits
int(s) == IF Len(s) = 0 THEN 0 ELSE 10 * int(SubSeq(s, 1, Len(s) - 1)) + (s[Len(s)] - 48)

\* the url of a fetch: its path, its query parameters, the id after the path
Url(path, q, age_group, transmission, id) ==
  [path |-> path, q |-> q, age_group |-> age_group, transmission |-> transmission, id |-> id]

\* the url loadDiseases fetches for the present values of the inputs
\* (VKR.py 1264-1285, 1291)
loadDiseasesUrl ==
  IF controls.symptomFilter # <<>>
  THEN Url("/search/by-symptom/", None, None, None, controls.symptomFilter)
  ELSE LET q == strip(controls.search)
       IN  Url("/diseases",
               IF q # <<>> THEN Some(q) ELSE None,
               IF controls.ageGroup # <<>> THEN Some(controls.ageGroup) ELSE None,
               IF controls.transmission # <<>> THEN Some(controls.transmission) ELSE None,
               <<>>)

\* the url loadDiseaseDetails fetches (VKR.py 1465)
loadDiseaseDetailsUrl(id) == Url("/diseases/", None, None, None, String(id))

\* the response of the server to a url of the page
Serve(url) ==
  CASE url.path = "/diseases" ->
         Respond(list_diseases(url.transmission,
                               IF url.age_group = None THEN None
                               ELSE Some(AgeGroupByValue(url.age_group[1])),
                               None, url.q))
    [] url.path = "/search/by-symptom/" -> Respond(search_by_symptom(int(url.id)))
    [] url.path = "/diseases/" -> Respond(get_disease(int(url.id)))

RECURSIVE lessFrom(_, _, _)
\* s < t on JavaScript strings that agree before position k: decided by the
\* first code unit that differs, a prefix coming first
lessFrom(s, t, k) ==
  IF k > Len(t) THEN FALSE
  ELSE IF k > Len(s) THEN TRUE
  ELSE IF s[k] # t[k] THEN s[k] < t[k]
  ELSE lessFrom(s, t, k + 1)

\* s < t on JavaScript strings
less(s, t) == lessFrom(s, t, 1)

\* va < vb in the comparator of applySorting (VKR.py 1315-1321);
\* toLowerCase maps the letters of the names as str.lower() does
sortsBefore(a, b, col) ==
  IF col = "name" THEN less(lower(a.name), lower(b.name)) ELSE a.id < b.id

\* the comparator of applySorting puts a before b (VKR.py 1314-1325)
goesFirst(a, b, state) ==
  IF state.direction = "asc"
  THEN sortsBefore(a, b, state.column)
  ELSE sortsBefore(b, a, state.column)

RECURSIVE merge(_, _, _)
\* two ordered lists merged; a row of the right list goes first only when the
\* comparator puts it before the row of the left list
merge(left, right, state) ==
  IF Len(left) = 0 THEN right
  ELSE IF Len(right) = 0 THEN left
  ELSE IF goesFirst(Head(right), Head(left), state)
  THEN <<Head(right)>> \o merge(left, Tail(right), state)
  ELSE <<Head(left)>> \o merge(Tail(left), right, state)

RECURSIVE sort(_, _)
\* Array.prototype.sort with a comparator: a stable sort
sort(data, state) ==
  IF Len(data) <= 1 THEN data
  ELSE merge(sort(SubSeq(data, 1, Len(data) \div 2), state),
             sort(SubSeq(data, (Len(data) \div 2) + 1, Len(data)), state),
             state)

\* applySorting that never negates the comparison: a faulty variant
applySorting_ascending_only(data, state) ==
  sort(data, [state EXCEPT !.direction = "asc"])

\* applySorting (VKR.py 1310-1326): lastData.sort with the comparator of the
\* column and the direction; Array.prototype.sort is stable, so rows that
\* compare equal keep their order
applySorting(data, state) == sort(data, state)

\* sortState after setSort(column) (VKR.py 1329-1334)
nextSortState(state, column) ==
  IF state.column = column
  THEN [state EXCEPT !.direction = IF state.direction = "asc" THEN "desc" ELSE "asc"]
  ELSE [column |-> column, direction |-> "asc"]

\* the texts the model types into #search
SearchTexts == {<<>>, QCommon}

\* the options the model picks in the three selects; "" is the first option
\* of each, and #transmission is left on it
SelectOptions ==
  [ageGroup |-> {<<>>, AgeGroupValue["under7"]},
   transmission |-> {<<>>},
   symptomFilter |-> {<<>>, String(SymptomsLoaded[9].id)}]

\* the fetch calls of function fn awaiting their response
InFlight(fn) == {f \in fetches : f.fn = fn}

\* fn may start one more fetch
CanFetch(fn) == Cardinality(InFlight(fn)) < MaxInFlight

\* await fetch(url) in function fn
Fetch(fn, url) ==
  /\ fetches' = fetches \cup {[fn |-> fn, url |-> url]}
  /\ issued' = [issued EXCEPT ![fn] = Some(url)]

\* what the page does not touch
PageFrame ==
  <<SYMPTOMS_DB, DISEASES_DB, STATISTICS_DB, pc, request, response, second, loading, workers>>

\* loadFilters ends: the listeners are attached (VKR.py 1246-1255), then
\* loadDiseases is called (VKR.py 1663)
loadFilters ==
  /\ ~listening
  /\ CanFetch("loadDiseases")
  /\ listening' = TRUE
  /\ Fetch("loadDiseases", loadDiseasesUrl)
  /\ UNCHANGED <<totalCount, lastData, sortState, currentDisease, selectedId, controls,
                 counter, timeout>>
  /\ UNCHANGED PageFrame

\* "change" on #ageGroup, #transmission, #symptomFilter: loadDiseases up to its fetch
onChange ==
  /\ listening
  /\ CanFetch("loadDiseases")
  /\ \E select \in DOMAIN SelectOptions :
       \E value \in SelectOptions[select] :
         /\ controls[select] # value
         /\ controls' = [controls EXCEPT ![select] = value]
  /\ Fetch("loadDiseases", loadDiseasesUrl')
  /\ UNCHANGED <<totalCount, lastData, sortState, currentDisease, selectedId, counter,
                 timeout, listening>>
  /\ UNCHANGED PageFrame

\* "input" on #search: debounce clears and arms its timer (VKR.py 1197-1203)
onInput ==
  /\ listening
  /\ \E value \in SearchTexts :
       /\ controls.search # value
       /\ controls' = [controls EXCEPT !.search = value]
  /\ timeout' = TRUE
  /\ UNCHANGED <<totalCount, lastData, sortState, currentDisease, selectedId, counter,
                 listening, fetches, issued>>
  /\ UNCHANGED PageFrame

\* the timer of debounce fires after 300 ms: loadDiseases up to its fetch
debouncedLoad ==
  /\ timeout
  /\ CanFetch("loadDiseases")
  /\ timeout' = FALSE
  /\ Fetch("loadDiseases", loadDiseasesUrl)
  /\ UNCHANGED <<totalCount, lastData, sortState, currentDisease, selectedId, controls,
                 counter, listening>>
  /\ UNCHANGED PageFrame

\* resetFilters (VKR.py 1647-1654), with loadDiseases up to its fetch
resetFilters ==
  /\ CanFetch("loadDiseases")
  /\ controls' = [search |-> <<>>, ageGroup |-> <<>>, transmission |-> <<>>,
                  symptomFilter |-> <<>>]
  /\ selectedId' = None
  /\ Fetch("loadDiseases", loadDiseasesUrl')
  /\ UNCHANGED <<totalCount, lastData, sortState, currentDisease, counter, timeout, listening>>
  /\ UNCHANGED PageFrame

\* a response to a fetch of loadDiseases arrives: the rest of
\* loadDiseasesStandard or loadDiseasesBySymptom, then applySorting and
\* renderTable (VKR.py 1270-1271, 1286-1302)
loadDiseases ==
  /\ \E f \in InFlight("loadDiseases") :
       LET resp == Serve(f.url)
       IN  /\ fetches' = fetches \ {f}
           /\ IF f.url.path = "/search/by-symptom/" /\ resp.status # 200
              THEN /\ lastData' = <<>>
                   /\ counter' = [text |-> "not found by symptom", shown |-> <<>>]
              ELSE /\ lastData' = applySorting(resp.body, sortState)
                   /\ counter' = [text |-> IF f.url.path = "/search/by-symptom/"
                                           THEN "found by symptom" ELSE "found",
                                  shown |-> <<Len(resp.body), totalCount>>]
  /\ UNCHANGED <<totalCount, sortState, currentDisease, selectedId, controls, timeout,
                 listening, issued>>
  /\ UNCHANGED PageFrame

\* a click on the header of the id or of the name column (VKR.py 1328-1338, 1658-1659)
setSort ==
  /\ \E column \in {"id", "name"} :
       /\ sortState' = nextSortState(sortState, column)
       /\ lastData' = applySorting(lastData, sortState')
  /\ UNCHANGED <<totalCount, currentDisease, selectedId, controls, counter, timeout,
                 listening, fetches, issued>>
  /\ UNCHANGED PageFrame

\* a click on a row of the table (VKR.py 1368-1372), with loadDiseaseDetails
\* up to its fetch (VKR.py 1454-1465)
onRowClick ==
  /\ CanFetch("loadDiseaseDetails")
  /\ \E i \in 1..Min({MaxRows, Len(lastData)}) :
       /\ selectedId' = Some(lastData[i].id)
       /\ Fetch("loadDiseaseDetails", loadDiseaseDetailsUrl(lastData[i].id))
  /\ UNCHANGED <<totalCount, lastData, sortState, currentDisease, controls, counter, timeout,
                 listening>>
  /\ UNCHANGED PageFrame

\* a response to a fetch of loadDiseaseDetails arrives (VKR.py 1466-1502)
loadDiseaseDetails ==
  /\ \E f \in InFlight("loadDiseaseDetails") :
       LET resp == Serve(f.url)
       IN  /\ fetches' = fetches \ {f}
           /\ currentDisease' = IF resp.status = 200 THEN Some(resp.body) ELSE currentDisease
  /\ UNCHANGED <<totalCount, lastData, sortState, selectedId, controls, counter, timeout,
                 listening, issued>>
  /\ UNCHANGED PageFrame

\* the filters, the sort headers and the list
NextList ==
  \/ loadFilters
  \/ onChange
  \/ onInput
  \/ debouncedLoad
  \/ resetFilters
  \/ loadDiseases
  \/ setSort

SpecList == Init /\ [][NextList]_vars

\* the rows, the details panel and the reset button
NextDetails ==
  \/ loadFilters
  \/ resetFilters
  \/ loadDiseases
  \/ onRowClick
  \/ loadDiseaseDetails

SpecDetails == Init /\ [][NextDetails]_vars

\* ------------------------------------------------------------------------
\* Properties
\* ------------------------------------------------------------------------

\* a response to the operation op is ready
Responded(op) == pc = "responded" /\ request.op = op

\* the ids of the diseases of the dataset
DatasetIds == {DiseasesLoaded[i].id : i \in 1..Len(DiseasesLoaded)}

\* the position in the dataset of the disease with this id
IndexOf(id) == CHOOSE k \in 1..Len(DiseasesLoaded) : DiseasesLoaded[k].id = id

\* the summary of the disease at position k of the dataset
SummaryOf(k) ==
  [id |-> DiseasesLoaded[k].id, name |-> DiseasesLoaded[k].name,
   age_group |-> DiseasesLoaded[k].age_group,
   pathogen_type |-> DiseasesLoaded[k].pathogen_type]

\* the ids carried by a list of records
IdsOf(list) == {list[i].id : i \in 1..Len(list)}

\* list is a subsequence of the dataset's summaries: dataset order, no duplicates
InDatasetOrder(list) ==
  /\ \A i \in 1..Len(list) : list[i].id \in DatasetIds /\ list[i] = SummaryOf(IndexOf(list[i].id))
  /\ \A i \in 1..(Len(list) - 1) : IndexOf(list[i].id) < IndexOf(list[i + 1].id)

\* C1: for every integer id that is not the id of a disease of the dataset,
\* get-disease-by-id answers NotFound (404) and returns no record.
C1_UnknownIdIsNotFound ==
  (Responded("get_disease") /\ request.disease_id[1] \notin DatasetIds)
    => /\ response.status = 404
       /\ DOMAIN response.body = {"detail"}

\* C1 witness: a request for an id outside the dataset was answered.
C1_Witness ==
  /\ Responded("get_disease")
  /\ request.disease_id[1] = Len(DiseasesLoaded) + 1
  /\ response.status = 404

\* C2: for every disease id of the dataset, get-disease-by-id returns a record
\* whose statistics all carry the requested id and a year of 2021, 2022, 2023.
C2_StatisticsOfRequestedDisease ==
  (Responded("get_disease") /\ request.disease_id[1] \in DatasetIds)
    => /\ response.status = 200
       /\ response.body.id = request.disease_id[1]
       /\ \A i \in 1..Len(response.body.statistics) :
            /\ response.body.statistics[i].disease_id = request.disease_id[1]
            /\ response.body.statistics[i].year \in {2021, 2022, 2023}

\* C2 witness: a known disease was returned with statistics attached.
C2_Witness ==
  /\ Responded("get_disease")
  /\ request.disease_id[1] \in DatasetIds
  /\ response.status = 200
  /\ Len(response.body.statistics) > 0

\* no filter argument is given in the request
NoFilter ==
  /\ request.transmission = None
  /\ request.age_group = None
  /\ request.pathogen_type = None
  /\ request.q = None

\* C3: list diseases without any filter returns one summary per disease of the
\* dataset, in dataset order, whatever operations were served before.
C3_UnfilteredListIsDataset ==
  (Responded("list_diseases") /\ NoFilter)
    => /\ response.status = 200
       /\ Len(response.body) = Len(DiseasesLoaded)
       /\ \A i \in 1..Len(DiseasesLoaded) : response.body[i] = SummaryOf(i)

\* C3 witness: an unfiltered list request was answered.
C3_Witness ==
  /\ Responded("list_diseases")
  /\ NoFilter
  /\ Len(response.body) > 1

\* the ids list diseases returns when filtered by age group a alone
AgeClass(a) == IdsOf(list_diseases(None, Some(a), None, None).value)

\* C4: list diseases filtered by an age group returns only diseases of that
\* group, and the results for the three age groups are pairwise disjoint and
\* together hold every disease of the dataset exactly once.
C4_AgeGroupsPartition ==
  /\ (Responded("list_diseases") /\ request.age_group # None)
       => /\ response.status = 200
          /\ \A i \in 1..Len(response.body) :
               /\ response.body[i].age_group = request.age_group[1]
               /\ DiseasesLoaded[IndexOf(response.body[i].id)].age_group = request.age_group[1]
  /\ \A i, j \in 1..Len(AgeGroup) : i # j => AgeClass(AgeGroup[i]) \cap AgeClass(AgeGroup[j]) = {}
  /\ UNION {AgeClass(AgeGroup[i]) : i \in 1..Len(AgeGroup)} = DatasetIds
  /\ \A i \in 1..Len(AgeGroup) :
       LET r == list_diseases(None, Some(AgeGroup[i]), None, None).value
       IN  Len(r) = Cardinality(IdsOf(r))

\* C4 witness: a list filtered by age group alone returned part of the dataset.
C4_Witness ==
  /\ Responded("list_diseases")
  /\ request.age_group # None
  /\ request.transmission = None /\ request.pathogen_type = None /\ request.q = None
  /\ Len(response.body) > 0
  /\ Len(response.body) < Len(DiseasesLoaded)

\* the positions of the diseases whose symptom list holds a symptom with this id
Holders(symptom_id) ==
  {k \in 1..Len(DiseasesLoaded) :
     \E j \in 1..Len(DiseasesLoaded[k].symptoms) : DiseasesLoaded[k].symptoms[j].id = symptom_id}

\* C5: search by symptom returns, as summaries in dataset order, exactly the
\* diseases whose symptom list holds a symptom with that id, and answers
\* NotFound (404) if and only if there is no such disease.
C5_SearchBySymptomExact ==
  Responded("search_by_symptom")
    => LET holders == Holders(request.symptom_id[1])
       IN  /\ response.status \in {200, 404}
           /\ response.status = 404 <=> holders = {}
           /\ response.status = 404 => DOMAIN response.body = {"detail"}
           /\ response.status = 200
                => /\ InDatasetOrder(response.body)
                   /\ IdsOf(response.body) = {DiseasesLoaded[k].id : k \in holders}

\* C5 witness: a search returned several diseases, one of them holding the
\* symptom elsewhere than first in its list.
C5_Witness ==
  /\ Responded("search_by_symptom")
  /\ response.status = 200
  /\ \E i \in 1..Len(response.body) :
       DiseasesLoaded[IndexOf(response.body[i].id)].symptoms[1].id # request.symptom_id[1]

\* C6: for every combination of filters, list diseases returns the
\* subsequence of the dataset (dataset order, no duplicates, each summary
\* carrying the fields of its disease) that is the intersection of the results
\* of each filter taken alone.
C6_FiltersAreConjoined ==
  Responded("list_diseases")
    => /\ response.status = 200
       /\ InDatasetOrder(response.body)
       /\ IdsOf(response.body) =
            IdsOf(list_diseases(request.transmission, None, None, None).value)
              \cap IdsOf(list_diseases(None, request.age_group, None, None).value)
              \cap IdsOf(list_diseases(None, None, request.pathogen_type, None).value)
              \cap IdsOf(list_diseases(None, None, None, request.q).value)

\* C6 witness: four filters were given, each alone keeps more than all together.
C6_Witness ==
  /\ Responded("list_diseases")
  /\ truthy(request.transmission) /\ request.age_group # None
  /\ truthy(request.pathogen_type) /\ truthy(request.q)
  /\ Len(response.body) > 0
  /\ Len(response.body) < Len(list_diseases(request.transmission, None, None, None).value)
  /\ Len(response.body) < Len(list_diseases(None, request.age_group, None, None).value)
  /\ Len(response.body) < Len(list_diseases(None, None, request.pathogen_type, None).value)
  /\ Len(response.body) < Len(list_diseases(None, None, None, request.q).value)

\* label and argument are equal once both are lower-cased and stripped
SameLabel(label, arg) == strip(lower(label)) = strip(lower(arg))

\* x occurs in y and is shorter: a proper prefix, suffix or inner part of y
ProperPart(x, y) == Len(x) < Len(y) /\ contains(x, y)

\* the ids of the diseases whose transmission label is the argument
TransmissionClass(arg) ==
  {DiseasesLoaded[k].id :
     k \in {n \in 1..Len(DiseasesLoaded) : SameLabel(DiseasesLoaded[n].transmission, arg)}}

\* the ids of the diseases whose pathogen label is the argument
PathogenClass(arg) ==
  {DiseasesLoaded[k].id :
     k \in {n \in 1..Len(DiseasesLoaded) : SameLabel(DiseasesLoaded[n].pathogen_type, arg)}}

\* transmission is the only filter of the request
OnlyTransmission ==
  /\ request.transmission # None
  /\ request.age_group = None /\ request.pathogen_type = None /\ request.q = None

\* pathogen_type is the only filter of the request
OnlyPathogen ==
  /\ request.pathogen_type # None
  /\ request.transmission = None /\ request.age_group = None /\ request.q = None

\* C7 as stated: for every transmission or pathogen_type argument, a disease
\* passes iff its label equals the argument once both are lower-cased and
\* stripped.
C7_Original ==
  Responded("list_diseases")
    => /\ OnlyTransmission
            => IdsOf(response.body) = TransmissionClass(request.transmission[1])
       /\ OnlyPathogen
            => IdsOf(response.body) = PathogenClass(request.pathogen_type[1])

\* C7 amended: for every transmission or pathogen_type argument other than
\* the empty string, a disease passes iff its label equals the argument once
\* both are lower-cased and stripped; so an argument that differs from a stored
\* label by letter case or surrounding whitespace selects what the label
\* selects, and a proper part of a label selects nothing.
C7_NonEmptyLabelMatch ==
  Responded("list_diseases")
    => /\ (OnlyTransmission /\ request.transmission[1] # <<>>)
            => /\ IdsOf(response.body) = TransmissionClass(request.transmission[1])
               /\ \A L \in TransmissionLabels :
                    SameLabel(L, request.transmission[1])
                      => response.body = list_diseases(Some(L), None, None, None).value
               /\ (\E L \in TransmissionLabels :
                     ProperPart(strip(lower(request.transmission[1])), lower(L)))
                    => response.body = <<>>
       /\ (OnlyPathogen /\ request.pathogen_type[1] # <<>>)
            => /\ IdsOf(response.body) = PathogenClass(request.pathogen_type[1])
               /\ \A L \in PathogenLabels :
                    SameLabel(L, request.pathogen_type[1])
                      => response.body = list_diseases(None, None, Some(L), None).value
               /\ (\E L \in PathogenLabels :
                     ProperPart(strip(lower(request.pathogen_type[1])), lower(L)))
                    => response.body = <<>>

\* C7 witness: a padded argument in another letter case than the stored label
\* selected the diseases of that label.
C7_Witness ==
  /\ Responded("list_diseases")
  /\ OnlyTransmission
  /\ request.transmission[1] # strip(request.transmission[1])
  /\ request.transmission[1] \notin TransmissionLabels
  /\ Len(response.body) > 0
  /\ Len(response.body) < Len(DiseasesLoaded)

\* q is the only filter of the request
OnlyQ ==
  /\ request.q # None
  /\ request.transmission = None /\ request.age_group = None /\ request.pathogen_type = None

\* the ids of the diseases whose lower-cased name holds needle
NameClass(needle) ==
  {DiseasesLoaded[k].id :
     k \in {n \in 1..Len(DiseasesLoaded) : contains(needle, lower(DiseasesLoaded[n].name))}}

\* C8 as stated: a disease passes the q filter iff the lower-cased argument
\* occurs as a contiguous substring of the lower-cased name.
C8_Original ==
  (Responded("list_diseases") /\ OnlyQ)
    => IdsOf(response.body) = NameClass(lower(request.q[1]))

\* C8 amended: a disease passes the q filter iff the argument, lower-cased and
\* with its leading and trailing whitespace removed, occurs as a contiguous
\* substring of the lower-cased name.
C8_TrimmedSubstringMatch ==
  Responded("list_diseases")
    => /\ OnlyQ => IdsOf(response.body) = NameClass(strip(lower(request.q[1])))
       /\ request.q # None
            => IdsOf(response.body) \subseteq NameClass(strip(lower(request.q[1])))

\* C8 witness: an argument with surrounding whitespace and an upper-case
\* letter selected some diseases and not all.
C8_Witness ==
  /\ Responded("list_diseases")
  /\ OnlyQ
  /\ request.q[1] # strip(request.q[1])
  /\ request.q[1] # lower(request.q[1])
  /\ Len(response.body) > 0
  /\ Len(response.body) < Len(DiseasesLoaded)

\* the statistics request names a disease or a year the table does not hold
StatisticsKeyUnknown ==
  \/ request.disease_id # None /\ request.disease_id[1] \notin DatasetIds
  \/ request.year # None /\ request.year[1] \notin {YEARS[i] : i \in 1..Len(YEARS)}

\* one filter of the list request, taken alone, keeps no disease
SomeFilterKeepsNothing ==
  \/ Len(list_diseases(request.transmission, None, None, None).value) = 0
  \/ Len(list_diseases(None, request.age_group, None, None).value) = 0
  \/ Len(list_diseases(None, None, request.pathogen_type, None).value) = 0
  \/ Len(list_diseases(None, None, None, request.q).value) = 0

\* C9: NotFound (404) is the only error and only get-disease-by-id and
\* search-by-symptom produce it; list diseases, list statistics, list symptoms
\* and filter metadata always succeed, with an empty list when nothing matches.
C9_OnlyLookupsFail ==
  pc = "responded"
    => /\ response.status \in {200, 404}
       /\ response.status = 404 => request.op \in {"get_disease", "search_by_symptom"}
       /\ request.op \in {"list_diseases", "get_statistics", "list_symptoms", "filter_meta"}
            => response.status = 200
       /\ (request.op = "get_statistics" /\ StatisticsKeyUnknown) => response.body = <<>>
       /\ (request.op = "list_diseases" /\ SomeFilterKeepsNothing) => response.body = <<>>

\* C9 witness: list statistics for a disease id that matches nothing succeeded
\* with an empty list.
C9_Witness ==
  /\ Responded("get_statistics")
  /\ request.disease_id # None
  /\ request.disease_id[1] \notin DatasetIds
  /\ response.status = 200
  /\ response.body = <<>>

\* the item satisfies every predicate the statistics request supplies
StatisticWanted(s) ==
  /\ request.year # None => s.year = request.year[1]
  /\ request.season # None => s.season = request.season[1]
  /\ request.disease_id # None => s.disease_id = request.disease_id[1]

\* C10: list statistics returns exactly the items of the table that satisfy
\* every supplied predicate (year, season, disease_id), in the table's order;
\* without arguments it returns the whole table.
C10_StatisticsFilteredInOrder ==
  Responded("get_statistics")
    => /\ response.status = 200
       /\ response.body = SelectSeq(StatisticsLoaded, StatisticWanted)
       /\ (request.year = None /\ request.season = None /\ request.disease_id = None)
            => response.body = StatisticsLoaded

\* C10 witness: a request supplying a year and a season returned several
\* items of the table, fewer than either predicate alone keeps.
C10_Witness ==
  /\ Responded("get_statistics")
  /\ request.year # None /\ request.season # None /\ request.disease_id = None
  /\ Len(response.body) = Len(DiseasesLoaded)

\* s comes before t in the ordering of str: at the first position where they
\* differ s has the smaller code point, or s is a proper prefix of t
LexBefore(s, t) ==
  LET n    == IF Len(s) < Len(t) THEN Len(s) ELSE Len(t)
      diff == {i \in 1..n : s[i] # t[i]}
  IN  IF diff = {} THEN Len(s) < Len(t) ELSE s[Min(diff)] < t[Min(diff)]

\* list is in ascending order and holds no value twice
AscendingNoRepeat(list) ==
  /\ \A i \in 1..(Len(list) - 1) : LexBefore(list[i], list[i + 1])
  /\ \A i, j \in 1..Len(list) : i # j => list[i] # list[j]

\* C11: each of the three lists of filter metadata (age_groups,
\* transmissions, pathogen_types) is in ascending order and holds no value
\* twice.
C11_FilterMetaSortedDistinct ==
  Responded("filter_meta")
    => /\ response.status = 200
       /\ AscendingNoRepeat(response.body.age_groups)
       /\ AscendingNoRepeat(response.body.transmissions)
       /\ AscendingNoRepeat(response.body.pathogen_types)

\* C11 witness: filter metadata was returned with several labels in each list.
C11_Witness ==
  /\ Responded("filter_meta")
  /\ Len(response.body.age_groups) > 1
  /\ Len(response.body.transmissions) > 1
  /\ Len(response.body.pathogen_types) > 1

\* the elements of a list
Range(list) == {list[i] : i \in 1..Len(list)}

\* the labels of the list under which list diseases returns the disease id
LabelsReturning(id, labels, field) ==
  {i \in 1..Len(labels) :
     id \in IdsOf(
       CASE field = "age_group" ->
              list_diseases(None, Some(AgeGroupByValue(labels[i])), None, None).value
         [] field = "transmission" ->
              list_diseases(Some(labels[i]), None, None, None).value
         [] field = "pathogen_type" ->
              list_diseases(None, None, Some(labels[i]), None).value)}

\* C12: filter metadata lists exactly the labels present in the dataset: each
\* label, used as the matching list-diseases filter, returns at least one
\* disease, and each disease is returned for exactly one label of each list.
C12_FilterMetaLabelsSelect ==
  Responded("filter_meta")
    => /\ Range(response.body.age_groups)
            = {AgeGroupValue[DiseasesLoaded[k].age_group] : k \in 1..Len(DiseasesLoaded)}
       /\ Range(response.body.transmissions) = TransmissionLabels
       /\ Range(response.body.pathogen_types) = PathogenLabels
       /\ \A i \in 1..Len(response.body.age_groups) :
            Len(list_diseases(None, Some(AgeGroupByValue(response.body.age_groups[i])),
                              None, None).value) > 0
       /\ \A i \in 1..Len(response.body.transmissions) :
            Len(list_diseases(Some(response.body.transmissions[i]), None, None, None).value) > 0
       /\ \A i \in 1..Len(response.body.pathogen_types) :
            Len(list_diseases(None, None, Some(response.body.pathogen_types[i]), None).value) > 0
       /\ \A id \in DatasetIds :
            /\ Cardinality(LabelsReturning(id, response.body.age_groups, "age_group")) = 1
            /\ Cardinality(LabelsReturning(id, response.body.transmissions, "transmission")) = 1
            /\ Cardinality(LabelsReturning(id, response.body.pathogen_types, "pathogen_type")) = 1

\* C12 witness: filter metadata was returned and one of its pathogen labels
\* selects part of the dataset.
C12_Witness ==
  /\ Responded("filter_meta")
  /\ \E i \in 1..Len(response.body.pathogen_types) :
       LET r == list_diseases(None, None, Some(response.body.pathogen_types[i]), None).value
       IN  Len(r) > 0 /\ Len(r) < Len(DiseasesLoaded)

\* the coefficient of a year, in tenths: 0.9, 1.0, 1.1
ClaimedYearTenths(year) ==
  CASE year = 2021 -> 9 [] year = 2022 -> 10 [] year = 2023 -> 11

\* the multiplier of a route and a season, in tenths
ClaimedSeasonTenths(transmission, season) ==
  IF transmission = TRANSMISSION_AIRBORNE
  THEN CASE season = "winter" -> 15 [] season = "spring" -> 11
         [] season = "summer" -> 6 [] season = "autumn" -> 10
  ELSE IF transmission = TRANSMISSION_FECAL_ORAL
  THEN CASE season = "winter" -> 6 [] season = "spring" -> 9
         [] season = "summer" -> 16 [] season = "autumn" -> 12
  ELSE CASE season = "winter" -> 10 [] season = "spring" -> 11
         [] season = "summer" -> 9 [] season = "autumn" -> 10

\* trunc(trunc((25 + 6 * id) * c_y) * m) with c_y and m in tenths
ClaimedCases(disease, year, season) ==
  ((((25 + 6 * disease.id) * ClaimedYearTenths(year)) \div 10)
     * ClaimedSeasonTenths(disease.transmission, season)) \div 10

\* C13: every generated case count equals trunc(trunc((25 + 6 * id) * c_y) * m)
\* with c_y = 0.9, 1.0, 1.1 for 2021, 2022, 2023 and m from the route class of
\* the disease, both steps truncating; disease 1 in winter 2021 has 40 cases.
C13_CasesFormula ==
  /\ \A i \in 1..Len(STATISTICS_DB) :
       LET s == STATISTICS_DB[i]
       IN  /\ s.year \in {2021, 2022, 2023}
           /\ s.disease_id \in DatasetIds
           /\ s.cases = ClaimedCases(DiseasesLoaded[IndexOf(s.disease_id)], s.year, s.season)
  /\ \E i \in 1..Len(STATISTICS_DB) :
       /\ STATISTICS_DB[i].disease_id = 1
       /\ STATISTICS_DB[i].year = 2021
       /\ STATISTICS_DB[i].season = "winter"
       /\ STATISTICS_DB[i].cases = 40

\* C13 witness: the table holds an item where rounding would give one more
\* than truncating does (disease 1, spring 2021: 27 * 1.1 = 29.7).
C13_Witness ==
  \E i \in 1..Len(STATISTICS_DB) :
    /\ STATISTICS_DB[i].disease_id = 1
    /\ STATISTICS_DB[i].year = 2021
    /\ STATISTICS_DB[i].season = "spring"
    /\ STATISTICS_DB[i].cases = 29

\* C15: every item of the statistics table has a disease_id that is the id of
\* a disease of the dataset.
C15_StatisticsReferToDiseases ==
  \A i \in 1..Len(STATISTICS_DB) :
    \E k \in 1..Len(DISEASES_DB) : DISEASES_DB[k].id = STATISTICS_DB[i].disease_id

\* C15 witness: the table holds items for the first and for the last disease.
C15_Witness ==
  /\ \E i \in 1..Len(STATISTICS_DB) : STATISTICS_DB[i].disease_id = DISEASES_DB[1].id
  /\ \E i \in 1..Len(STATISTICS_DB) :
       STATISTICS_DB[i].disease_id = DISEASES_DB[Len(DISEASES_DB)].id

\* C16: no two items of the statistics table share the same
\* (disease_id, year, season) triple.
C16_StatisticsKeyUnique ==
  Cardinality({<<STATISTICS_DB[i].disease_id, STATISTICS_DB[i].year, STATISTICS_DB[i].season>> :
                 i \in 1..Len(STATISTICS_DB)})
    = Len(STATISTICS_DB)

\* C16 witness: the table holds two items of one disease and one season that
\* differ in the year only.
C16_Witness ==
  \E i, j \in 1..Len(STATISTICS_DB) :
    /\ STATISTICS_DB[i].disease_id = STATISTICS_DB[j].disease_id
    /\ STATISTICS_DB[i].season = STATISTICS_DB[j].season
    /\ STATISTICS_DB[i].year < STATISTICS_DB[j].year

\* C17: every entry of every disease's symptom list is equal (id, name,
\* description) to a symptom of the symptom collection.
C17_SymptomsAreFromCollection ==
  \A k \in 1..Len(DISEASES_DB) :
    \A j \in 1..Len(DISEASES_DB[k].symptoms) :
      \E i \in 1..Len(SYMPTOMS_DB) :
        /\ DISEASES_DB[k].symptoms[j].id = SYMPTOMS_DB[i].id
        /\ DISEASES_DB[k].symptoms[j].name = SYMPTOMS_DB[i].name
        /\ DISEASES_DB[k].symptoms[j].description = SYMPTOMS_DB[i].description

\* C17 witness: a disease lists several symptoms, each with a description.
C17_Witness ==
  \E k \in 1..Len(DISEASES_DB) :
    /\ Len(DISEASES_DB[k].symptoms) > 1
    /\ \A j \in 1..Len(DISEASES_DB[k].symptoms) : DISEASES_DB[k].symptoms[j].description # None

\* C18: disease ids are positive and pairwise distinct, symptom ids are
\* positive and pairwise distinct, so get-disease-by-id matches at most one
\* record per id.
C18_IdsPositiveDistinct ==
  /\ \A i \in 1..Len(DISEASES_DB) : DISEASES_DB[i].id \in Nat \ {0}
  /\ \A i, j \in 1..Len(DISEASES_DB) : i # j => DISEASES_DB[i].id # DISEASES_DB[j].id
  /\ \A i \in 1..Len(SYMPTOMS_DB) : SYMPTOMS_DB[i].id \in Nat \ {0}
  /\ \A i, j \in 1..Len(SYMPTOMS_DB) : i # j => SYMPTOMS_DB[i].id # SYMPTOMS_DB[j].id
  /\ Responded("get_disease")
       => Cardinality({k \in 1..Len(DISEASES_DB) :
                         DISEASES_DB[k].id = request.disease_id[1]}) <= 1

\* C18 witness: get-disease-by-id found the one record with the requested id.
C18_Witness ==
  /\ Responded("get_disease")
  /\ response.status = 200
  /\ Cardinality({k \in 1..Len(DISEASES_DB) : DISEASES_DB[k].id = request.disease_id[1]}) = 1

\* C19: after any finite sequence of the six operations, with any arguments
\* and including those answered NotFound, the disease collection, the symptom
\* collection and the statistics table equal their values right after
\* startup.
C19_DatasetNeverChanges ==
  /\ SYMPTOMS_DB = SymptomsLoaded
  /\ DISEASES_DB = DiseasesLoaded
  /\ STATISTICS_DB = StatisticsLoaded

\* C19 witness: a request was answered NotFound and the collections are as
\* loaded.
C19_Witness ==
  /\ pc = "responded"
  /\ response.status = 404
  /\ db = <<SymptomsLoaded, DiseasesLoaded, StatisticsLoaded>>

ImportEndsLoaded ==
  loading[1] = LoadSteps => STATISTICS_DB = StatisticsLoaded

\* the response the handler gives to the request when it runs alone
AloneResponse(r) ==
  CASE r.op = "list_diseases" ->
         Respond(list_diseases(r.transmission, r.age_group, r.pathogen_type, r.q))
    [] r.op = "get_disease" -> Respond(get_disease(r.disease_id[1]))
    [] r.op = "list_symptoms" -> Respond(list_symptoms)
    [] r.op = "search_by_symptom" -> Respond(search_by_symptom(r.symptom_id[1]))
    [] r.op = "get_statistics" -> Respond(get_statistics(r.year, r.season, r.disease_id))
    [] r.op = "filter_meta" -> Respond(filter_meta)

\* C20: under any interleaving of requests served side by side, each request
\* gets the response it would get if served alone on the freshly loaded
\* dataset, and no thread ever sees a collection that differs from the loaded
\* one.
C20_RequestsIndependent ==
  /\ SYMPTOMS_DB = SymptomsLoaded
  /\ DISEASES_DB = DiseasesLoaded
  /\ STATISTICS_DB = StatisticsLoaded
  /\ \A w \in Workers :
       workers[w].pc = "responded"
         => workers[w].response = AloneResponse(workers[w].request)

\* C20 witness: a filtered list request was answered by one thread after
\* another thread had started a list request in the middle of it.
C20_Witness ==
  \E w, v \in Workers :
    /\ w # v
    /\ workers[w].pc = "responded"
    /\ workers[w].request.op = "list_diseases"
    /\ workers[w].request.q # None
    /\ Len(workers[w].response.body) > 0
    /\ workers[v].request.op = "list_diseases"
    /\ workers[v].pc \in {"transmission", "age_group", "pathogen_type", "q", "return"}

\* the place of a statistics item in the order year 2021, 2022, 2023 and,
\* within a year, winter, spring, summer, autumn
GenerationRank(s) ==
  4 * (CASE s.year = 2021 -> 0 [] s.year = 2022 -> 1 [] s.year = 2023 -> 2)
    + (CASE s.season = "winter" -> 0 [] s.season = "spring" -> 1
         [] s.season = "summer" -> 2 [] s.season = "autumn" -> 3)

\* C21: the statistics returned by get-disease-by-id are in generation order:
\* year ascending (2021, 2022, 2023) and, within a year, the seasons in the
\* order winter, spring, summer, autumn.
C21_StatisticsInGenerationOrder ==
  (Responded("get_disease") /\ response.status = 200)
    => LET st == response.body.statistics
       IN  /\ \A i \in 1..Len(st) :
                st[i].year \in {2021, 2022, 2023}
                  /\ st[i].season \in {"winter", "spring", "summer", "autumn"}
           /\ \A i \in 1..(Len(st) - 1) : GenerationRank(st[i]) < GenerationRank(st[i + 1])

\* C21 witness: a disease was returned whose statistics start with winter 2021,
\* go on to another season and another year, and end with autumn 2023.
C21_Witness ==
  /\ Responded("get_disease")
  /\ response.status = 200
  /\ Len(response.body.statistics) = 12
  /\ response.body.statistics[1].year = 2021
  /\ response.body.statistics[1].season = "winter"
  /\ response.body.statistics[2].season = "spring"
  /\ response.body.statistics[5].year = 2022
  /\ response.body.statistics[12].year = 2023
  /\ response.body.statistics[12].season = "autumn"

\* the argument is given and nothing is left of it after strip()
EmptyAfterTrim(opt) == opt # None /\ strip(opt[1]) = <<>>

\* the argument is given, is not the empty string, and is whitespace only
Blank(opt) == EmptyAfterTrim(opt) /\ opt[1] # <<>>

\* C22 as stated: a transmission, pathogen_type or name argument that is empty
\* after trimming gives the result obtained when that argument is absent.
C22_Original ==
  Responded("list_diseases")
    => /\ EmptyAfterTrim(request.transmission)
            => response.body
                 = list_diseases(None, request.age_group, request.pathogen_type, request.q).value
       /\ EmptyAfterTrim(request.pathogen_type)
            => response.body
                 = list_diseases(request.transmission, request.age_group, None, request.q).value
       /\ EmptyAfterTrim(request.q)
            => response.body
                 = list_diseases(request.transmission, request.age_group, request.pathogen_type,
                                 None).value

\* C22 amended: an empty-string transmission or pathogen_type, and a name
\* argument that is empty after trimming, give the result obtained when that
\* argument is absent; a transmission or pathogen_type made of whitespace only
\* selects no disease.
C22_EmptyIsAbsentBlankLabelIsNone ==
  Responded("list_diseases")
    => /\ request.transmission = Some(<<>>)
            => response.body
                 = list_diseases(None, request.age_group, request.pathogen_type, request.q).value
       /\ request.pathogen_type = Some(<<>>)
            => response.body
                 = list_diseases(request.transmission, request.age_group, None, request.q).value
       /\ EmptyAfterTrim(request.q)
            => response.body
                 = list_diseases(request.transmission, request.age_group, request.pathogen_type,
                                 None).value
       /\ (Blank(request.transmission) \/ Blank(request.pathogen_type))
            => response.body = <<>>

\* C22 witness: an empty-string transmission came with an age group, and the
\* diseases of that age group, some and not all, were returned.
C22_Witness ==
  /\ Responded("list_diseases")
  /\ request.transmission = Some(<<>>)
  /\ request.age_group # None
  /\ Len(response.body) > 0
  /\ Len(response.body) < Len(DiseasesLoaded)

\* C23: for every disease id of the dataset, the statistics inside the
\* get-disease-by-id response are the result of list statistics called with
\* only disease_id set to that id (same items, same order), and the other
\* fields of the response are those of the stored disease record.
C23_DetailsAgreeWithStatistics ==
  (Responded("get_disease") /\ request.disease_id[1] \in DatasetIds)
    => LET stored == DiseasesLoaded[IndexOf(request.disease_id[1])]
       IN  /\ response.status = 200
           /\ response.body.statistics
                = get_statistics(None, None, request.disease_id).value
           /\ DOMAIN response.body = DOMAIN stored \cup {"statistics"}
           /\ [f \in DOMAIN stored |-> response.body[f]] = stored

\* C23 witness: a disease that has a prevention text and symptoms was returned
\* with its twelve statistics items.
C23_Witness ==
  /\ Responded("get_disease")
  /\ request.disease_id[1] \in DatasetIds
  /\ response.status = 200
  /\ response.body.prevention # None
  /\ Len(response.body.symptoms) > 1
  /\ Len(response.body.statistics) = 12
  /\ response.body.statistics[12].disease_id = request.disease_id[1]

\* the (disease_id, year, season) triples of the items of the table
StatisticsKeys ==
  {<<STATISTICS_DB[i].disease_id, STATISTICS_DB[i].year, STATISTICS_DB[i].season>> :
     i \in 1..Len(STATISTICS_DB)}

\* C24: for every disease of the dataset, every year of 2021..2023 and every
\* one of the 4 seasons the statistics table holds exactly one item (every
\* triple occurs, and the table has as many items as triples), so it holds 12
\* items per disease and (number of diseases) x 3 x 4 items in all.
C24_StatisticsComplete ==
  /\ StatisticsKeys
       = {DISEASES_DB[k].id : k \in 1..Len(DISEASES_DB)} \X {2021, 2022, 2023}
           \X {"winter", "spring", "summer", "autumn"}
  /\ Cardinality(StatisticsKeys) = Len(STATISTICS_DB)
  /\ \A k \in 1..Len(DISEASES_DB) :
       Cardinality({i \in 1..Len(STATISTICS_DB) :
                      STATISTICS_DB[i].disease_id = DISEASES_DB[k].id}) = 12
  /\ Len(STATISTICS_DB) = Len(DISEASES_DB) * 3 * 4

\* C24 witness: list statistics without filters returned the whole table, 540
\* items for 45 diseases, the last one being autumn 2023 of the last disease.
C24_Witness ==
  /\ Responded("get_statistics")
  /\ request.year = None /\ request.season = None /\ request.disease_id = None
  /\ Len(DISEASES_DB) = 45
  /\ Len(response.body) = 540
  /\ response.body = STATISTICS_DB
  /\ response.body[540].disease_id = DISEASES_DB[45].id
  /\ response.body[540].year = 2023
  /\ response.body[540].season = "autumn"

\* the ids of the symptoms of the collection
SymptomIds == {SYMPTOMS_DB[i].id : i \in 1..Len(SYMPTOMS_DB)}

\* C25: every symptom of the collection is listed by at least one disease, so
\* search-by-symptom answers NotFound for no id taken from the collection, and
\* answers NotFound only for ids outside it.
C25_EverySymptomIsUsed ==
  /\ \A i \in 1..Len(SYMPTOMS_DB) :
       \E k \in 1..Len(DISEASES_DB) :
         \E j \in 1..Len(DISEASES_DB[k].symptoms) :
           DISEASES_DB[k].symptoms[j].id = SYMPTOMS_DB[i].id
  /\ Responded("list_symptoms")
       => \A i \in 1..Len(response.body) :
            search_by_symptom(response.body[i].id).raised = FALSE
  /\ Responded("search_by_symptom")
       => (response.status = 404 <=> request.symptom_id[1] \notin SymptomIds)

\* C25 witness: a search by the id of the last symptom of the collection
\* returned diseases.
C25_Witness ==
  /\ Responded("search_by_symptom")
  /\ request.symptom_id[1] = SYMPTOMS_DB[Len(SYMPTOMS_DB)].id
  /\ response.status = 200
  /\ Len(response.body) > 0

\* the items of the table for the disease with this id, in table order
StatisticsOf(disease_id) ==
  SelectSeq(STATISTICS_DB, LAMBDA s : s.disease_id = disease_id)

\* C26: for every disease and every season the case count strictly increases
\* from 2021 to 2022 and from 2022 to 2023, and every case count is at least 1.
C26_CasesGrowEveryYear ==
  /\ \A k \in 1..Len(DISEASES_DB) :
       LET st == StatisticsOf(DISEASES_DB[k].id)
       IN  \A i, j \in 1..Len(st) :
             (st[i].season = st[j].season /\ st[j].year = st[i].year + 1
                /\ st[i].year \in {2021, 2022})
               => st[i].cases < st[j].cases
  /\ \A i \in 1..Len(STATISTICS_DB) : STATISTICS_DB[i].cases >= 1

\* C26 witness: the table holds the three summer items of disease 1, whose
\* counts 16, 18, 20 grow by two a year.
C26_Witness ==
  \E i, j, k \in 1..12 :
    /\ STATISTICS_DB[i].disease_id = 1 /\ STATISTICS_DB[j].disease_id = 1
    /\ STATISTICS_DB[k].disease_id = 1
    /\ STATISTICS_DB[i].season = "summer" /\ STATISTICS_DB[j].season = "summer"
    /\ STATISTICS_DB[k].season = "summer"
    /\ STATISTICS_DB[i].year = 2021 /\ STATISTICS_DB[i].cases = 16
    /\ STATISTICS_DB[j].year = 2022 /\ STATISTICS_DB[j].cases = 18
    /\ STATISTICS_DB[k].year = 2023 /\ STATISTICS_DB[k].cases = 20

\* C27: the total typed into the page script (totalCount = 45) is the number
\* of diseases of the dataset, so in every "found N of total" text written to
\* the counter, for a list as for a search by symptom, N is at most the total.
C27_TotalCountIsDatasetSize ==
  /\ totalCount = Len(DISEASES_DB)
  /\ counter.shown # <<>>
       => /\ counter.shown[2] = Len(DISEASES_DB)
          /\ counter.shown[1] <= counter.shown[2]
          /\ counter.shown[1] >= 0

\* C27 witness: the counter showed the whole dataset, 45 of 45, and the table
\* held that many rows.
C27_Witness ==
  /\ counter.text = "found"
  /\ counter.shown = <<45, 45>>
  /\ Len(lastData) = 45

\* row a may stand directly before row b under a sort column and direction
InSortOrder(a, b, state) ==
  IF state.column = "id"
  THEN IF state.direction = "asc" THEN a.id <= b.id ELSE a.id >= b.id
  ELSE IF state.direction = "asc"
       THEN ~LexBefore(lower(b.name), lower(a.name))
       ELSE ~LexBefore(lower(a.name), lower(b.name))

\* the rows of the table are ordered by a sort column and direction
RowsOrdered(rows, state) ==
  \A i \in 1..(Len(rows) - 1) : InSortOrder(rows[i], rows[i + 1], state)

\* sortState is one of the four column and direction pairs
SortStateOK(state) ==
  /\ DOMAIN state = {"column", "direction"}
  /\ state.column \in {"id", "name"}
  /\ state.direction \in {"asc", "desc"}

\* what the claim says a click on header c makes of the sort state
ClaimedSortState(state, c) ==
  IF c = state.column
  THEN [column |-> c, direction |-> IF state.direction = "asc" THEN "desc" ELSE "asc"]
  ELSE [column |-> c, direction |-> "asc"]

\* a click on header c took the page from this state to the next
Clicked(c) == setSort /\ sortState'.column = c

\* C28 as stated: setSort(c) flips the direction when c is the sort column and
\* otherwise sets the column to c with direction asc; column and direction
\* stay within id/name and asc/desc; a second click on the same header brings
\* back the direction there was before the first; after setSort the rows of
\* lastData are ordered by the resulting column and direction.
C28_Original ==
  /\ []SortStateOK(sortState)
  /\ [][\A c \in {"id", "name"} :
          Clicked(c)
            => /\ sortState' = ClaimedSortState(sortState, c)
               /\ ClaimedSortState(sortState', c).direction = sortState.direction
               /\ nextSortState(sortState', c).direction = sortState.direction
               /\ RowsOrdered(lastData', sortState')]_vars

\* C28 amended: as stated, except that a second click on the same header
\* brings back the sort state there was before the first only when that
\* header was the sort column before the first click; when it was the other
\* column, the two clicks leave the clicked column with direction desc.
C28_SortStateMachine ==
  /\ []SortStateOK(sortState)
  /\ [][\A c \in {"id", "name"} :
          Clicked(c)
            => /\ sortState' = ClaimedSortState(sortState, c)
               /\ c = sortState.column => nextSortState(sortState', c) = sortState
               /\ c # sortState.column
                    => nextSortState(sortState', c) = [column |-> c, direction |-> "desc"]
               /\ RowsOrdered(lastData', sortState')]_vars

\* C28 witness: after clicks on the name header the whole table is shown by
\* name, descending, and its first row is not the one with the smallest id.
C28_Witness ==
  /\ sortState = [column |-> "name", direction |-> "desc"]
  /\ Len(lastData) = 45
  /\ lastData[1].id # 1
  /\ lastData[1].name # lastData[45].name

\* the rows a response to url puts into the table
RowsOf(url) ==
  LET resp == Serve(url) IN IF resp.status = 200 THEN resp.body ELSE <<>>

\* the table holds the rows of the response to url, in some order
TableShows(url) ==
  /\ Len(lastData) = Len(RowsOf(url))
  /\ Range(lastData) = Range(RowsOf(url))

\* C29: once every fetch of loadDiseases has been answered, the rows of the
\* table are those of the response to the most recently issued request, which
\* is the request for the present values of the search, age-group,
\* transmission and symptom inputs (once the timer of the search box has
\* fired), whatever the order in which the responses arrived.
C29_TableShowsLatestRequest ==
  (InFlight("loadDiseases") = {} /\ issued.loadDiseases # None)
    => /\ TableShows(issued.loadDiseases[1])
       /\ ~timeout => issued.loadDiseases[1] = loadDiseasesUrl

\* C30: once every fetch of loadDiseaseDetails has been answered, if a row is
\* selected then the disease of the details panel and chart is the one whose
\* id is selectedId, whatever the order in which the responses arrived.
C30_DetailsShowSelectedRow ==
  (InFlight("loadDiseaseDetails") = {} /\ selectedId # None)
    => /\ currentDisease # None
       /\ currentDisease[1].id = selectedId[1]

====
